---- MODULE Spec2Model ----
(***************************************************************************)
(* Model of the rolling-window reference computations of EpochScript's     *)
(* Python fixture generators:                                              *)
(*   frac_diff_python_gen/generate_test_data.py                            *)
(*       compute_ffd_weights, frac_diff_manual                             *)
(*   cointegration_python_gen/generate_cointegration_expected.py           *)
(*       compute_half_life_ar1, compute_rolling_adf,                       *)
(*       compute_engle_granger, compute_johansen                           *)
(*   cointegration_python_gen/debug_comparison.py                          *)
(*       debug_half_life_ar1                                               *)
(*                                                                         *)
(* Real numbers are exact rationals [num, den] in lowest terms with        *)
(* den > 0; the floating-point NaN (numpy's "not computable" sentinel) is  *)
(* the record with den = 0.  One run of the model is one call of one of    *)
(* the functions: Init draws the function and its arguments, the actions   *)
(* are the iterations of its loops.                                        *)
(***************************************************************************)
EXTENDS Integers, Sequences, FiniteSets, TLC

VARIABLES
    fn,          \* the function being called
    pc,          \* position in that function
    d,           \* compute_ffd_weights / frac_diff_manual: d
    threshold,   \* compute_ffd_weights / frac_diff_manual: threshold
    max_size,    \* compute_ffd_weights: max_size
    weights,     \* compute_ffd_weights: weights (the list being built)
    w,           \* compute_ffd_weights: w
    k,           \* compute_ffd_weights: loop variable k
    series,      \* the input series (series / spread / y)
    window,      \* frac_diff_manual: len(weights); rolling functions: window
    result,      \* frac_diff_manual: result
    t,           \* frac_diff_manual: loop variable t
    x,           \* compute_engle_granger: x (the second input series)
    data,        \* compute_johansen: data, a sequence of rows of n_vars values
    i,           \* rolling functions: loop variable i
    window_data, \* rolling functions: the slice of the current window
                 \* (window_data / y_win / data_win)
    x_win,       \* compute_engle_granger: x_win
    test_result, \* rolling functions: what the last statsmodels call that
                 \* returned gave (result / coint_result)
    cols,        \* rolling functions: the output arrays, by DataFrame column
    test_pos,    \* debug_half_life_ar1: position in the list of test indices
    phis,        \* debug_half_life_ar1: phi_py, phi_pop, phi_sample of the
                 \* last test index
    parquet_files, \* parquet_explorer main: parquet_files
    choice,      \* parquet_explorer main: choice, the last line input() gave
    event,       \* parquet_explorer main: what the last input() call did
    df,          \* parquet_explorer main: df, the path of the loaded file
    viewer,      \* parquet_explorer main: dtale.show has been called
    exit_code,   \* parquet_explorer main: how the process ended
    todo,        \* parallel loop: the indices no worker has taken yet
    inflight     \* parallel loop: the rows computed and not yet written, each
                 \* with its worker and its index

\* the arguments of the call
args == <<fn, d, threshold, max_size, series, x, data>>
\* locals of compute_ffd_weights
ffd_vars == <<weights, w, k>>
\* locals of frac_diff_manual
fd_vars == <<result, t>>
\* locals of the rolling functions
roll_vars == <<i, window_data, x_win, test_result, cols>>
\* locals of debug_half_life_ar1
dbg_vars == <<test_pos, phis>>

\* locals of the parquet explorer's main
px_vars == <<parquet_files, choice, event, df, viewer, exit_code>>
\* state of the workers of a loop run in parallel
par_vars == <<todo, inflight>>

vars == <<args, pc, window, ffd_vars, fd_vars, roll_vars, dbg_vars, px_vars,
          par_vars>>

----------------------------------------------------------------------------
(* Bounds of the model.                                                    *)

\* largest max_size passed to compute_ffd_weights
MaxSize == 5
\* longest input series
MaxLen == 4
\* longest input of compute_engle_granger and compute_johansen
MaxPairLen == 3

\* longest near-unit-root series given to compute_half_life_ar1
MaxNearLen == 3

----------------------------------------------------------------------------
(* Exact rational arithmetic standing for Python / numpy float arithmetic. *)

Abs(v) == IF v < 0 THEN -v ELSE v

RECURSIVE GCD(_, _)
GCD(a, b) == IF b = 0 THEN a ELSE GCD(b, a % b)

\* np.nan
NaN == [num |-> 0, den |-> 0]

IsNaN(a) == a.den = 0

\* the rational n/m in lowest terms; x/0 is NaN (numpy: 0.0/0 with a warning)
Frac(n, m) ==
    IF m = 0 THEN NaN
    ELSE LET g == GCD(Abs(n), Abs(m))
             s == IF m < 0 THEN -1 ELSE 1
         IN  [num |-> (s * n) \div g, den |-> (s * m) \div g]

Flt(n) == [num |-> n, den |-> 1]

RNeg(a) == IF IsNaN(a) THEN NaN ELSE [num |-> -a.num, den |-> a.den]

RAdd(a, b) ==
    IF IsNaN(a) \/ IsNaN(b) THEN NaN
    ELSE Frac(a.num * b.den + b.num * a.den, a.den * b.den)

RSub(a, b) == RAdd(a, RNeg(b))

RMul(a, b) ==
    IF IsNaN(a) \/ IsNaN(b) THEN NaN
    ELSE Frac(a.num * b.num, a.den * b.den)

RDiv(a, b) ==
    IF IsNaN(a) \/ IsNaN(b) THEN NaN
    ELSE Frac(a.num * b.den, a.den * b.num)

RAbs(a) == IF IsNaN(a) THEN NaN ELSE [num |-> Abs(a.num), den |-> a.den]

\* a < b; False when either side is NaN, as every float comparison with NaN
RLess(a, b) ==
    /\ ~IsNaN(a)
    /\ ~IsNaN(b)
    /\ a.num * b.den < b.num * a.den

\* mutant of FullNaN: an array one element short
FullNaN_short(n) == [j \in 1..(n - 1) |-> NaN]

\* np.full(n, np.nan)
FullNaN(n) == [j \in 1..n |-> NaN]

\* range(lo, hi) as the sequence lo, lo+1, ..., hi-1 is never built: a loop
\* "for v in range(lo, hi)" is at v while v < hi.

----------------------------------------------------------------------------
(* Input domains.                                                          *)

\* values of d: negative, zero, fractional and integer orders
DValues == {Flt(-2), Flt(-1), Frac(-1, 2), Flt(0), Frac(1, 2), Flt(1),
            Frac(3, 2), Flt(2), Flt(3)}

\* values of threshold (FFDParams: threshold > 0)
ThresholdValues == {Frac(1, 100), Frac(1, 4), Flt(1), Flt(2), Flt(3)}

\* values of the elements of an input series
SeriesValues == {-1, 0, 2}

RECURSIVE SeqsUpTo(_, _)
SeqsUpTo(S, n) ==
    IF n = 0 THEN {<< >>}
    ELSE LET shorter == SeqsUpTo(S, n - 1)
         IN  shorter \cup {Append(s, v) : s \in {u \in shorter : Len(u) = n - 1}, v \in S}

\* the input series of length 0..MaxLen, as arrays of floats
SeriesInputs == {[j \in 1..Len(s) |-> Flt(s[j])] : s \in SeqsUpTo(SeriesValues, MaxLen)}

\* b^n
RECURSIVE IntPow(_, _)
IntPow(b, n) == IF n = 0 THEN 1 ELSE b * IntPow(b, n - 1)

\* noiseless AR(1) series s * (p/q)^j of length 3..MaxLen, scaled by
\* q^(n-1) so that every element is an integer
AR1Inputs ==
    {[j \in 1..n |-> Flt(pq[3] * IntPow(pq[1], j - 1) * IntPow(pq[2], n - j))] :
        n \in 3..MaxLen, pq \in {<<1, 2, 1>>, <<1, 3, -1>>, <<2, 3, 1>>}}

\* series of length 0..MaxNearLen whose windows have phi at and just below 1
NearUnitInputs ==
    {[j \in 1..Len(s) |-> Flt(s[j])] : s \in SeqsUpTo({0, 50, 99, 100}, MaxNearLen)}

\* the input series of compute_half_life_ar1
HalfLifeInputs == SeriesInputs \cup AR1Inputs \cup NearUnitInputs

\* the input series of the rolling ADF, which only slices them
ShortInputs == {[j \in 1..Len(s) |-> Flt(s[j])] : s \in SeqsUpTo({0, 2}, MaxLen)}

\* the pairs <<y, x>> of aligned series of length 0..MaxPairLen
PairInputs ==
    UNION {{<<[j \in 1..Len(ys) |-> Flt(ys[j])], [j \in 1..Len(ys) |-> Flt(xv[j])]>> :
               xv \in {u \in SeqsUpTo({0, 1}, MaxPairLen) : Len(u) = Len(ys)}} :
           ys \in SeqsUpTo({0, 2}, MaxPairLen)}

\* data of compute_johansen: n rows of n_vars columns, all entries distinct
JohansenInputs ==
    {[n_vars |-> nv, rows |-> [r \in 1..n |-> [c \in 1..nv |-> Flt(10 * r + c)]]] :
        n \in 0..MaxPairLen, nv \in {1, 2, 3}}

\* window of the two-series functions
PairWindows == 1..(MaxPairLen + 1)

----------------------------------------------------------------------------
(* compute_ffd_weights (generate_test_data.py 20-32).                      *)

\* mutant of NextWeight: (d - k) for (d - k + 1)
NextWeight_lagged(wv, dv, kv) ==
    RDiv(RMul(RNeg(wv), RSub(dv, Flt(kv))), Flt(kv))

\* line 28:  w = -w * (d - k + 1) / k
NextWeight(wv, dv, kv) ==
    RDiv(RMul(RNeg(wv), RAdd(RSub(dv, Flt(kv)), Flt(1))), Flt(kv))

\* mutant of BelowThreshold: abs(w) <= threshold
BelowThreshold_inclusive(wv, thr) == ~RLess(thr, RAbs(wv))

\* line 29:  abs(w) < threshold
BelowThreshold(wv, thr) == RLess(RAbs(wv), thr)

\* mutant of ffd_range: range(1, max_size + 1)
ffd_range_inclusive(kv, ms) == kv <= ms

\* line 27:  k in range(1, max_size), for the k the loop has come to
ffd_range(kv, ms) == kv < ms

\* mutant of ffd_iter: the weight is appended before the threshold test
ffd_iter_append_first ==
    /\ pc = "ffd_loop"
    /\ ffd_range(k, max_size)
    /\ LET nw == NextWeight(w, d, k)
       IN  /\ w' = nw
           /\ weights' = Append(weights, nw)
           /\ IF BelowThreshold(nw, threshold)
              THEN /\ pc' = "ffd_return"
                   /\ UNCHANGED k
              ELSE /\ k' = k + 1
                   /\ pc' = "ffd_loop"
    /\ UNCHANGED <<px_vars, par_vars, args, window, fd_vars, roll_vars, dbg_vars>>

\* lines 27-31, one iteration of "for k in range(1, max_size)"
ffd_iter ==
    /\ pc = "ffd_loop"
    /\ ffd_range(k, max_size)
    /\ LET nw == NextWeight(w, d, k)
       IN  /\ w' = nw
           /\ IF BelowThreshold(nw, threshold)
              THEN /\ pc' = "ffd_return"
                   /\ UNCHANGED <<weights, k>>
              ELSE /\ weights' = Append(weights, nw)
                   /\ k' = k + 1
                   /\ pc' = "ffd_loop"
    /\ UNCHANGED <<px_vars, par_vars, args, window, fd_vars, roll_vars, dbg_vars>>

\* line 27, range(1, max_size) exhausted
ffd_exhausted ==
    /\ pc = "ffd_loop"
    /\ ~ffd_range(k, max_size)
    /\ pc' = "ffd_return"
    /\ UNCHANGED <<px_vars, par_vars, args, window, ffd_vars, fd_vars, roll_vars, dbg_vars>>

\* mutant of ffd_return: the filter loop is "for t in range(n)"
ffd_return_from_zero ==
    /\ pc = "ffd_return"
    /\ IF fn = "frac_diff_manual"
       THEN /\ window' = Len(weights)
            /\ result' = FullNaN(Len(series))
            /\ t' = 0
            /\ pc' = "fd_loop"
       ELSE /\ pc' = "done"
            /\ UNCHANGED <<window, result, t>>
    /\ UNCHANGED <<px_vars, par_vars, args, ffd_vars, roll_vars, dbg_vars>>

\* line 32, return to the caller; in frac_diff_manual lines 40-44 follow
ffd_return ==
    /\ pc = "ffd_return"
    /\ IF fn = "frac_diff_manual"
       THEN /\ window' = Len(weights)
            /\ result' = FullNaN(Len(series))
            /\ t' = Len(weights) - 1
            /\ pc' = "fd_loop"
       ELSE /\ pc' = "done"
            /\ UNCHANGED <<window, result, t>>
    /\ UNCHANGED <<px_vars, par_vars, args, ffd_vars, roll_vars, dbg_vars>>

----------------------------------------------------------------------------
(* frac_diff_manual (generate_test_data.py 35-52).  Arrays are 1-based     *)
(* here: Python index j is element j + 1.                                  *)

\* mutant of sum_val: series[t] for series[t - k]
RECURSIVE sum_val_no_lag(_, _, _, _)
sum_val_no_lag(ws, xs, tv, kk) ==
    IF kk = 0 THEN Flt(0)
    ELSE RAdd(sum_val_no_lag(ws, xs, tv, kk - 1), RMul(ws[kk], xs[tv + 1]))

\* lines 47-49: sum_val after kk iterations of "for k in range(window)"
RECURSIVE sum_val(_, _, _, _)
sum_val(ws, xs, tv, kk) ==
    IF kk = 0 THEN Flt(0)
    ELSE RAdd(sum_val(ws, xs, tv, kk - 1), RMul(ws[kk], xs[tv - (kk - 1) + 1]))

\* mutant of fd_iter: the sum is also written back into series[t]
fd_iter_inplace ==
    /\ pc = "fd_loop"
    /\ t < Len(series)
    /\ result' = [result EXCEPT ![t + 1] = sum_val(weights, series, t, window)]
    /\ series' = [series EXCEPT ![t + 1] = sum_val(weights, series, t, window)]
    /\ t' = t + 1
    /\ UNCHANGED <<px_vars, par_vars, fn, d, threshold, max_size, x, data, pc, window, ffd_vars,
                   roll_vars, dbg_vars>>

\* lines 46-50, one iteration of "for t in range(window - 1, n)"
fd_iter ==
    /\ pc = "fd_loop"
    /\ t < Len(series)
    /\ result' = [result EXCEPT ![t + 1] = sum_val(weights, series, t, window)]
    /\ t' = t + 1
    /\ UNCHANGED <<px_vars, par_vars, args, pc, window, ffd_vars, roll_vars, dbg_vars>>

\* line 52
fd_return ==
    /\ pc = "fd_loop"
    /\ ~(t < Len(series))
    /\ pc' = "done"
    /\ UNCHANGED <<px_vars, par_vars, args, window, ffd_vars, fd_vars, roll_vars, dbg_vars>>

----------------------------------------------------------------------------
(* Python and numpy operations on arrays.  Arrays are sequences; Python    *)
(* index j is element j + 1.                                               *)

\* a Python slice bound on an array of length n: negative bounds count from
\* the end, and the result is clamped to 0..n
SliceBound(b, n) == IF b < 0 THEN (IF b + n < 0 THEN 0 ELSE b + n)
                    ELSE (IF b > n THEN n ELSE b)

\* xs[a:b]
PySlice(xs, a, b) ==
    LET lo == SliceBound(a, Len(xs))
        hi == SliceBound(b, Len(xs))
    IN  IF hi <= lo THEN << >> ELSE [j \in 1..(hi - lo) |-> xs[lo + j]]

\* np.zeros(n, dtype=int)
Zeros(n) == [j \in 1..n |-> Flt(0)]

\* np.sum(xs)
RECURSIVE SeqSum(_)
SeqSum(xs) ==
    IF Len(xs) = 0 THEN Flt(0)
    ELSE RAdd(SeqSum(SubSeq(xs, 1, Len(xs) - 1)), xs[Len(xs)])

\* np.mean(xs): nan for an empty array
np_mean(xs) == RDiv(SeqSum(xs), Flt(Len(xs)))

\* the elementwise a * b
Times(a, b) == [j \in 1..Len(a) |-> RMul(a[j], b[j])]

\* the elementwise xs - c
Minus(xs, c) == [j \in 1..Len(xs) |-> RSub(xs[j], c)]

\* the divisor numpy uses for ddof: N - ddof, and 0 when that is not positive
Fact(n, ddof) == IF n - ddof <= 0 THEN 0 ELSE n - ddof

\* mutant of np_cov: the population (N) denominator
np_cov_population(a, b) ==
    RDiv(SeqSum(Times(Minus(a, np_mean(a)), Minus(b, np_mean(b)))),
         Flt(Fact(Len(a), 0)))

\* np.cov(a, b)[0, 1]: the sample covariance, N - 1 denominator
np_cov(a, b) ==
    RDiv(SeqSum(Times(Minus(a, np_mean(a)), Minus(b, np_mean(b)))),
         Flt(Fact(Len(a), 1)))

\* np.var(xs, ddof=ddof)
np_var(xs, ddof) ==
    RDiv(SeqSum(Times(Minus(xs, np_mean(xs)), Minus(xs, np_mean(xs)))),
         Flt(Fact(Len(xs), ddof)))

\* v > 1e-10, for a rational v: num * 10^10 > den, that is num > den / 10^10,
\* computed within 32 bits as num > (den \div 10^5) \div 10^5
AboveEps(v) ==
    /\ ~IsNaN(v)
    /\ v.num > (v.den \div 100000) \div 100000

\* mutant of InUnitInterval: 0 < phi <= 1
InUnitInterval_closed(phi) == RLess(Flt(0), phi) /\ ~RLess(Flt(1), phi)

\* 0 < phi < 1
InUnitInterval(phi) == RLess(Flt(0), phi) /\ RLess(phi, Flt(1))

----------------------------------------------------------------------------
(* compute_half_life_ar1 (generate_cointegration_expected.py 72-115).      *)

\* mutant of roll_start: range(max(window - 2, 0), n)
roll_start_early(win) == IF win >= 2 THEN win - 2 ELSE 0

\* lines 84, 131, 174, 237:  the first i of range(window - 1, n)
roll_start(win) == win - 1

\* mutant of WindowSlice: series[i - window : i]
WindowSlice_shifted(xs, iv, win) == PySlice(xs, iv - win, iv)

\* mutant of WindowSlice: the expanding window series[:i + 1]
WindowSlice_expanding(xs, iv, win) == PySlice(xs, 0, iv + 1)

\* lines 85, 132, 175-176, 238:  series[i - window + 1:i + 1]
WindowSlice(xs, iv, win) == PySlice(xs, iv - win + 1, iv + 1)

\* mutant of ar1_phi: the regression of y_lag on y_t
ar1_phi_reversed(wd) ==
    LET y_t == PySlice(wd, 1, Len(wd))
        y_lag == PySlice(wd, 0, -1)
        cov == np_cov(y_t, y_lag)
        var_cur == np_var(y_t, 1)
    IN  IF AboveEps(var_cur) THEN RDiv(cov, var_cur) ELSE Flt(0)

\* lines 88-98: phi of one window
ar1_phi(wd) ==
    LET y_t == PySlice(wd, 1, Len(wd))
        y_lag == PySlice(wd, 0, -1)
        cov == np_cov(y_t, y_lag)
        var_lag == np_var(y_lag, 1)
    IN  IF AboveEps(var_lag) THEN RDiv(cov, var_lag) ELSE Flt(0)

\* bounds <<lo, hi>> of (p/q)^n in ten-thousandths, lo rounded down and hi
\* up, by squaring
RECURSIVE PowBounds(_, _, _)
PowBounds(p, q, n) ==
    IF n = 0 THEN <<10000, 10000>>
    ELSE IF n % 2 = 1
    THEN LET b == PowBounds(p, q, n - 1)
         IN  <<(b[1] * p) \div q, (b[2] * p + q - 1) \div q>>
    ELSE LET h == PowBounds(p, q, n \div 2)
         IN  <<(h[1] * h[1]) \div 10000, (h[2] * h[2] + 9999) \div 10000>>

\* whether window * 10 < -ln(2) / ln(phi), that is phi^(window * 10) > 1/2,
\* for 0 < phi < 1; both answers where the bounds above do not decide
CapIsLess(phi, cap) ==
    LET b == PowBounds(phi.num, phi.den, cap)
    IN  IF 2 * b[1] > 10000 THEN {TRUE}
        ELSE IF 2 * b[2] < 10000 THEN {FALSE}
        ELSE BOOLEAN

\* mutant of HalfLifeValues: line 107 left out
HalfLifeValues_uncapped(phi, win) ==
    {[num |-> phi.num, den |-> phi.den, f |-> "-ln2/ln"]}

\* lines 105-107: min(-np.log(2) / np.log(phi), window * 10); the logarithm
\* is kept in closed form, as the record of phi tagged "-ln2/ln"
HalfLifeValues(phi, win) ==
    {IF capped THEN Flt(win * 10)
     ELSE [num |-> phi.num, den |-> phi.den, f |-> "-ln2/ln"] :
        capped \in CapIsLess(phi, win * 10)}

\* lines 84-109, one iteration of "for i in range(window - 1, n)"
hl_iter ==
    /\ pc = "hl_loop"
    /\ i < Len(series)
    /\ LET wd == WindowSlice(series, i, window)
           phi == ar1_phi(wd)
       IN  /\ window_data' = wd
           /\ IF InUnitInterval(phi)
              THEN \E hl \in HalfLifeValues(phi, window) :
                       cols' = [cols EXCEPT !.ar1_coef[i + 1] = phi,
                                            !.is_mean_reverting[i + 1] = Flt(1),
                                            !.half_life[i + 1] = hl]
              ELSE cols' = [cols EXCEPT !.ar1_coef[i + 1] = phi,
                                        !.half_life[i + 1] = NaN]
    /\ i' = i + 1
    /\ UNCHANGED <<px_vars, par_vars, args, pc, window, ffd_vars, fd_vars, x_win, test_result, dbg_vars>>

\* lines 111-115
hl_return ==
    /\ pc = "hl_loop"
    /\ ~(i < Len(series))
    /\ pc' = "done"
    /\ UNCHANGED <<px_vars, par_vars, args, window, ffd_vars, fd_vars, roll_vars, dbg_vars>>

----------------------------------------------------------------------------
(* debug_half_life_ar1 (debug_comparison.py 46-135).                       *)

\* line 68:  [window - 1, window + 10, window + 50, len(spread) - 1]
TestIndices(win, n) == <<win - 1, win + 10, win + 50, n - 1>>

\* lines 79-82
phi_py(y_t, y_lag) ==
    LET cov_py == np_cov(y_t, y_lag)
        var_lag_py == np_var(y_lag, 1)
    IN  IF AboveEps(var_lag_py) THEN RDiv(cov_py, var_lag_py) ELSE Flt(0)

\* mutant of cov_pop: the sample denominator in the covariance alone
cov_pop_mixed(y_t, y_lag) == np_cov(y_t, y_lag)

\* line 88:  np.mean(y_t * y_lag) - mean_y * mean_y_lag
cov_pop(y_t, y_lag) ==
    RSub(np_mean(Times(y_t, y_lag)), RMul(np_mean(y_t), np_mean(y_lag)))

\* line 89:  np.mean(y_lag**2) - mean_y_lag**2
var_lag_pop(y_lag) ==
    RSub(np_mean(Times(y_lag, y_lag)), RMul(np_mean(y_lag), np_mean(y_lag)))

\* line 90
phi_pop(y_t, y_lag) ==
    IF AboveEps(var_lag_pop(y_lag))
    THEN RDiv(cov_pop(y_t, y_lag), var_lag_pop(y_lag))
    ELSE Flt(0)

\* lines 85, 97-99: the sums are divided by n - 1 as it is, n = len(y_lag)
phi_sample(y_t, y_lag) ==
    LET n == Len(y_lag)
        cov_sample_correct ==
            RDiv(SeqSum(Times(Minus(y_t, np_mean(y_t)), Minus(y_lag, np_mean(y_lag)))),
                 Flt(n - 1))
        var_lag_sample ==
            RDiv(SeqSum(Times(Minus(y_lag, np_mean(y_lag)), Minus(y_lag, np_mean(y_lag)))),
                 Flt(n - 1))
    IN  IF AboveEps(var_lag_sample) THEN RDiv(cov_sample_correct, var_lag_sample)
        ELSE Flt(0)

\* lines 68-99, one iteration of "for test_idx in [...]"
dbg_iter ==
    /\ pc = "dbg_loop"
    /\ test_pos < Len(TestIndices(window, Len(series)))
    /\ LET test_idx == TestIndices(window, Len(series))[test_pos + 1]
           wd == PySlice(series, test_idx - window + 1, test_idx + 1)
           y_t == PySlice(wd, 1, Len(wd))
           y_lag == PySlice(wd, 0, -1)
       IN  IF test_idx >= window - 1
           THEN /\ window_data' = wd
                /\ i' = test_idx
                /\ phis' = [phi_py |-> phi_py(y_t, y_lag),
                            phi_pop |-> phi_pop(y_t, y_lag),
                            phi_sample |-> phi_sample(y_t, y_lag)]
           ELSE UNCHANGED <<window_data, i, phis>>
    /\ test_pos' = test_pos + 1
    /\ UNCHANGED <<px_vars, par_vars, args, pc, window, ffd_vars, fd_vars, x_win, test_result, cols>>

\* the list of test indices is exhausted
dbg_return ==
    /\ pc = "dbg_loop"
    /\ ~(test_pos < Len(TestIndices(window, Len(series))))
    /\ pc' = "done"
    /\ UNCHANGED <<px_vars, par_vars, args, window, ffd_vars, fd_vars, roll_vars, dbg_vars>>

----------------------------------------------------------------------------
(* The statsmodels collaborators.  A call either raises or returns; what   *)
(* it returns is drawn from a few values on both sides of every comparison *)
(* the callers make.                                                       *)

\* p-values: below 0.05, and 0.05 itself
PValues == {Frac(1, 100), Frac(1, 20)}

\* adfuller(window_data, ...): (statistic, pvalue, ..., {"1%", "5%", "10%"})
\* coint(y_win, x_win, ...):   (coint_t, pvalue, [1%, 5%, 10%])
TestOutcomes ==
    {[raised |-> TRUE]} \cup
    {[raised |-> FALSE, stat |-> Flt(-3), pvalue |-> pv,
      crit |-> <<Frac(-7, 2), Frac(-29, 10), Frac(-13, 5)>>] : pv \in PValues}

\* add_constant(x_win), OLS(y_win, X).fit() and params[0], params[1].  With
\* x_win not constant the fit is the least-squares line.  With x_win constant
\* the design matrix is singular (or has one column): the call raises, or
\* returns the least-squares solution of least norm.
OLSOutcomes(y_win, xw) ==
    LET mean_y == np_mean(y_win)
        mean_x == np_mean(xw)
        sxx == SeqSum(Times(Minus(xw, mean_x), Minus(xw, mean_x)))
        sxy == SeqSum(Times(Minus(xw, mean_x), Minus(y_win, mean_y)))
        slope == RDiv(sxy, sxx)
        scale == RAdd(Flt(1), RMul(mean_x, mean_x))
    IN  IF sxx /= Flt(0)
        THEN {[raised |-> FALSE, alpha |-> RSub(mean_y, RMul(slope, mean_x)),
               beta |-> slope]}
        ELSE {[raised |-> TRUE],
              [raised |-> FALSE, alpha |-> RDiv(mean_y, scale),
               beta |-> RDiv(RMul(mean_x, mean_y), scale)]}

\* trace statistics: at the 5% critical value, and above it
LrValues == {Flt(15), Flt(16)}

\* coint_johansen(data_win, ...): eig, lr1, lr2 of length n_vars and the
\* critical-value table cvt[n_vars][10%, 5%, 1%]
JohansenOutcomes(n_vars) ==
    {[raised |-> TRUE]} \cup
    {[raised |-> FALSE,
      eig |-> [v \in 1..n_vars |-> Frac(1, v + 1)],
      lr1 |-> l,
      lr2 |-> [v \in 1..n_vars |-> Flt(v)],
      cvt |-> [v \in 1..n_vars |-> <<Flt(14), Flt(15), Flt(17)>>]] :
        l \in [1..n_vars -> LrValues]}

----------------------------------------------------------------------------
(* compute_rolling_adf (generate_cointegration_expected.py 118-152).       *)

\* mutant of BelowFivePercent: 1 if pvalue <= 0.05 else 0
BelowFivePercent_inclusive(pv) == IF RLess(Frac(5, 100), pv) THEN Flt(0) ELSE Flt(1)

\* lines 141, 199:  1 if pvalue < 0.05 else 0
BelowFivePercent(pv) == IF RLess(pv, Frac(5, 100)) THEN Flt(1) ELSE Flt(0)

\* mutant of adf_iter: "break" for "pass" in the except clause
adf_iter_break ==
    /\ pc = "adf_loop"
    /\ i < Len(series)
    /\ window_data' = WindowSlice(series, i, window)
    /\ \E res \in TestOutcomes :
           /\ test_result' = IF res.raised THEN test_result ELSE res
           /\ IF res.raised
              THEN UNCHANGED cols /\ i' = Len(series)
              ELSE /\ cols' = [cols EXCEPT !.adf_stat[i + 1] = res.stat,
                                           !.p_value[i + 1] = res.pvalue,
                                           !.critical_1pct[i + 1] = res.crit[1],
                                           !.critical_5pct[i + 1] = res.crit[2],
                                           !.critical_10pct[i + 1] = res.crit[3],
                                           !.is_stationary[i + 1] = IF RLess(res.pvalue, Frac(5, 100))
                                                                    THEN Flt(1) ELSE Flt(0)]
                   /\ i' = i + 1
    /\ UNCHANGED <<px_vars, par_vars, args, pc, window, ffd_vars, fd_vars, x_win, dbg_vars>>

\* lines 131-143, one iteration of "for i in range(window - 1, n)"
adf_iter ==
    /\ pc = "adf_loop"
    /\ i < Len(series)
    /\ window_data' = WindowSlice(series, i, window)
    /\ \E res \in TestOutcomes :
           /\ test_result' = IF res.raised THEN test_result ELSE res
           /\ IF res.raised
              THEN UNCHANGED cols
              ELSE cols' = [cols EXCEPT !.adf_stat[i + 1] = res.stat,
                                        !.p_value[i + 1] = res.pvalue,
                                        !.critical_1pct[i + 1] = res.crit[1],
                                        !.critical_5pct[i + 1] = res.crit[2],
                                        !.critical_10pct[i + 1] = res.crit[3],
                                        !.is_stationary[i + 1] = BelowFivePercent(res.pvalue)]
    /\ i' = i + 1
    /\ UNCHANGED <<px_vars, par_vars, args, pc, window, ffd_vars, fd_vars, x_win, dbg_vars>>

\* lines 145-152
adf_return ==
    /\ pc = "adf_loop"
    /\ ~(i < Len(series))
    /\ pc' = "done"
    /\ UNCHANGED <<px_vars, par_vars, args, window, ffd_vars, fd_vars, roll_vars, dbg_vars>>

----------------------------------------------------------------------------
(* compute_engle_granger (generate_cointegration_expected.py 155-214).     *)

\* lines 174-202, one iteration of "for i in range(window - 1, n)"
eg_iter ==
    /\ pc = "eg_loop"
    /\ i < Len(series)
    /\ LET y_win == WindowSlice(series, i, window)
           xw == WindowSlice(x, i, window)
       IN  /\ window_data' = y_win
           /\ x_win' = xw
           /\ \E ols \in OLSOutcomes(y_win, xw) :
                  IF ols.raised
                  THEN UNCHANGED <<cols, test_result>>
                  ELSE LET fitted == [cols EXCEPT
                               !.intercept[i + 1] = ols.alpha,
                               !.hedge_ratio[i + 1] = ols.beta,
                               !.spread[i + 1] = RSub(RSub(series[i + 1], ols.alpha),
                                                      RMul(ols.beta, x[i + 1]))]
                       IN  \E coint_result \in TestOutcomes :
                               /\ test_result' = IF coint_result.raised THEN test_result ELSE coint_result
                               /\ IF coint_result.raised
                                  THEN cols' = fitted
                                  ELSE cols' = [fitted EXCEPT
                                           !.adf_stat[i + 1] = coint_result.stat,
                                           !.p_value[i + 1] = coint_result.pvalue,
                                           !.critical_1pct[i + 1] = coint_result.crit[1],
                                           !.critical_5pct[i + 1] = coint_result.crit[2],
                                           !.critical_10pct[i + 1] = coint_result.crit[3],
                                           !.is_cointegrated[i + 1] =
                                               BelowFivePercent(coint_result.pvalue)]
    /\ i' = i + 1
    /\ UNCHANGED <<px_vars, par_vars, args, pc, window, ffd_vars, fd_vars, dbg_vars>>

\* lines 204-214
eg_return ==
    /\ pc = "eg_loop"
    /\ ~(i < Len(series))
    /\ pc' = "done"
    /\ UNCHANGED <<px_vars, par_vars, args, window, ffd_vars, fd_vars, roll_vars, dbg_vars>>

----------------------------------------------------------------------------
(* compute_johansen (generate_cointegration_expected.py 217-275).          *)

\* mutant of johansen_rank: the 10% column, cvt[., 0]
johansen_rank_10pct(lr1, cvt) ==
    IF RLess(cvt[1][1], lr1[1])
    THEN (IF RLess(cvt[2][1], lr1[2]) THEN 2 ELSE 1)
    ELSE 0

\* mutant of johansen_rank: the number of hypotheses not rejected
johansen_rank_accepted(lr1, cvt) ==
    IF RLess(cvt[1][2], lr1[1])
    THEN (IF RLess(cvt[2][2], lr1[2]) THEN 0 ELSE 1)
    ELSE 2

\* lines 257-261: the rank from the trace statistics and the 5% column
johansen_rank(lr1, cvt) ==
    IF RLess(cvt[1][2], lr1[1])
    THEN (IF RLess(cvt[2][2], lr1[2]) THEN 2 ELSE 1)
    ELSE 0

\* lines 244-262: the assignments of one row; result.eig[1], lr1[1], lr2[1]
\* raise IndexError when n_vars is 1, after eigval_0[i] is set
johansen_row(cs, iv, res, n_vars) ==
    LET first == [cs EXCEPT !.eigval_0[iv + 1] = res.eig[1]]
    IN  IF n_vars < 2 THEN first
        ELSE [first EXCEPT !.eigval_1[iv + 1] = res.eig[2],
                           !.trace_stat_0[iv + 1] = res.lr1[1],
                           !.trace_stat_1[iv + 1] = res.lr1[2],
                           !.max_stat_0[iv + 1] = res.lr2[1],
                           !.max_stat_1[iv + 1] = res.lr2[2],
                           !.rank[iv + 1] = Flt(johansen_rank(res.lr1, res.cvt))]

\* lines 237-265, one iteration of "for i in range(window - 1, n)"
joh_iter ==
    /\ pc = "joh_loop"
    /\ i < Len(data.rows)
    /\ window_data' = WindowSlice(data.rows, i, window)
    /\ \E res \in JohansenOutcomes(data.n_vars) :
           /\ test_result' = IF res.raised THEN test_result ELSE res
           /\ IF res.raised
              THEN UNCHANGED cols
              ELSE cols' = johansen_row(cols, i, res, data.n_vars)
    /\ i' = i + 1
    /\ UNCHANGED <<px_vars, par_vars, args, pc, window, ffd_vars, fd_vars, x_win, dbg_vars>>

\* lines 267-275
joh_return ==
    /\ pc = "joh_loop"
    /\ ~(i < Len(data.rows))
    /\ pc' = "done"
    /\ UNCHANGED <<px_vars, par_vars, args, window, ffd_vars, fd_vars, roll_vars, dbg_vars>>

----------------------------------------------------------------------------

\* the variables a call does not use
NoFFD ==
    /\ d = Flt(0)
    /\ threshold = Flt(1)
    /\ max_size = 1
    /\ weights = << >>
    /\ w = Flt(0)
    /\ k = 0
    /\ result = << >>
    /\ t = 0

NoRolling ==
    /\ x = << >>
    /\ data = << >>
    /\ i = 0
    /\ window_data = << >>
    /\ x_win = << >>
    /\ test_result = << >>
    /\ cols = << >>

NoDebug ==
    /\ test_pos = 0
    /\ phis = << >>

NoExplorer ==
    /\ parquet_files = << >>
    /\ choice = << >>
    /\ event = "None"
    /\ df = << >>
    /\ viewer = FALSE
    /\ exit_code = "None"

NoWorkers ==
    /\ todo = {}
    /\ inflight = {}

\* compute_ffd_weights(d, threshold, max_size): lines 25-26
InitWeights ==
    /\ fn = "compute_ffd_weights"
    /\ NoExplorer
    /\ NoWorkers
    /\ d \in DValues
    /\ threshold \in ThresholdValues
    /\ max_size \in 1..MaxSize
    /\ series = << >>
    /\ pc = "ffd_loop"
    /\ weights = <<Flt(1)>>
    /\ w = Flt(1)
    /\ k = 1
    /\ window = 0
    /\ result = << >>
    /\ t = 0
    /\ NoRolling
    /\ NoDebug

\* frac_diff_manual(series, d, threshold): line 40 calls
\* compute_ffd_weights(d, threshold) with the default max_size
InitFracDiff ==
    /\ fn = "frac_diff_manual"
    /\ NoExplorer
    /\ NoWorkers
    /\ d \in DValues
    /\ threshold \in ThresholdValues
    /\ max_size = MaxSize
    /\ series \in SeriesInputs
    /\ pc = "ffd_loop"
    /\ weights = <<Flt(1)>>
    /\ w = Flt(1)
    /\ k = 1
    /\ window = 0
    /\ result = << >>
    /\ t = 0
    /\ NoRolling
    /\ NoDebug

\* window: a positive integer, also longer than the series
Windows == 1..(MaxLen + 1)

\* compute_half_life_ar1(series, window): lines 79-82
InitHalfLife ==
    /\ fn = "compute_half_life_ar1"
    /\ NoExplorer
    /\ NoWorkers
    /\ series \in HalfLifeInputs
    /\ window \in Windows
    /\ pc = "hl_loop"
    /\ i = roll_start(window)
    /\ cols = [half_life |-> FullNaN(Len(series)),
               ar1_coef |-> FullNaN(Len(series)),
               is_mean_reverting |-> Zeros(Len(series))]
    /\ window_data = << >>
    /\ x_win = << >>
    /\ test_result = << >>
    /\ x = << >>
    /\ data = << >>
    /\ NoFFD
    /\ NoDebug

\* debug_half_life_ar1(window): lines 50-53 load spread, here series
InitDebug ==
    /\ fn = "debug_half_life_ar1"
    /\ NoExplorer
    /\ NoWorkers
    /\ series \in SeriesInputs
    /\ window \in Windows
    /\ pc = "dbg_loop"
    /\ test_pos = 0
    /\ phis = << >>
    /\ NoFFD
    /\ NoRolling

\* compute_rolling_adf(series, window): lines 123-129
InitADF ==
    /\ fn = "compute_rolling_adf"
    /\ NoExplorer
    /\ NoWorkers
    /\ series \in ShortInputs
    /\ window \in Windows
    /\ pc = "adf_loop"
    /\ i = roll_start(window)
    /\ cols = [adf_stat |-> FullNaN(Len(series)),
               p_value |-> FullNaN(Len(series)),
               critical_1pct |-> FullNaN(Len(series)),
               critical_5pct |-> FullNaN(Len(series)),
               critical_10pct |-> FullNaN(Len(series)),
               is_stationary |-> Zeros(Len(series))]
    /\ window_data = << >>
    /\ x_win = << >>
    /\ test_result = << >>
    /\ x = << >>
    /\ data = << >>
    /\ NoFFD
    /\ NoDebug

\* compute_engle_granger(y, x, window): lines 163-172; y is series
InitEngleGranger ==
    /\ fn = "compute_engle_granger"
    /\ NoExplorer
    /\ NoWorkers
    /\ \E pair \in PairInputs : series = pair[1] /\ x = pair[2]
    /\ window \in PairWindows
    /\ pc = "eg_loop"
    /\ i = roll_start(window)
    /\ cols = [hedge_ratio |-> FullNaN(Len(series)),
               intercept |-> FullNaN(Len(series)),
               spread |-> FullNaN(Len(series)),
               adf_stat |-> FullNaN(Len(series)),
               p_value |-> FullNaN(Len(series)),
               critical_1pct |-> FullNaN(Len(series)),
               critical_5pct |-> FullNaN(Len(series)),
               critical_10pct |-> FullNaN(Len(series)),
               is_cointegrated |-> Zeros(Len(series))]
    /\ window_data = << >>
    /\ x_win = << >>
    /\ test_result = << >>
    /\ data = << >>
    /\ NoFFD
    /\ NoDebug

\* compute_johansen(data, window): lines 225-235
InitJohansen ==
    /\ fn = "compute_johansen"
    /\ NoExplorer
    /\ NoWorkers
    /\ data \in JohansenInputs
    /\ window \in PairWindows
    /\ pc = "joh_loop"
    /\ i = roll_start(window)
    /\ cols = [rank |-> FullNaN(Len(data.rows)),
               trace_stat_0 |-> FullNaN(Len(data.rows)),
               trace_stat_1 |-> FullNaN(Len(data.rows)),
               max_stat_0 |-> FullNaN(Len(data.rows)),
               max_stat_1 |-> FullNaN(Len(data.rows)),
               eigval_0 |-> FullNaN(Len(data.rows)),
               eigval_1 |-> FullNaN(Len(data.rows))]
    /\ window_data = << >>
    /\ x_win = << >>
    /\ test_result = << >>
    /\ series = << >>
    /\ x = << >>
    /\ NoFFD
    /\ NoDebug

Init ==
    \/ InitWeights
    \/ InitFracDiff
    \/ InitHalfLife
    \/ InitDebug
    \/ InitADF
    \/ InitEngleGranger
    \/ InitJohansen

Next ==
    \/ ffd_iter
    \/ ffd_exhausted
    \/ ffd_return
    \/ fd_iter
    \/ fd_return
    \/ hl_iter
    \/ hl_return
    \/ dbg_iter
    \/ dbg_return
    \/ adf_iter
    \/ adf_return
    \/ eg_iter
    \/ eg_return
    \/ joh_iter
    \/ joh_return

Spec == Init /\ [][Next]_vars

----------------------------------------------------------------------------
(* Reference definitions used by the properties below.                     *)

\* the weight of lag j in closed form: the product of (i - 1 - d) / i, i = 1..j
RECURSIVE RefProduct(_, _)
RefProduct(dv, j) ==
    IF j = 0 THEN Flt(1)
    ELSE RMul(RefProduct(dv, j - 1), RDiv(RSub(Flt(j - 1), dv), Flt(j)))

RefTable == [dv \in DValues |-> [j \in 0..MaxSize |-> RefProduct(dv, j)]]

RefW(dv, j) == RefTable[dv][j]

\* the indices 1 <= j < ms whose weight is below the threshold in magnitude
BelowIndices(dv, thr, ms) == {j \in 1..(ms - 1) : RLess(RAbs(RefW(dv, j)), thr)}

\* the length of the series compute_ffd_weights is to return
StopIndex(dv, thr, ms) ==
    IF BelowIndices(dv, thr, ms) = {} THEN ms
    ELSE CHOOSE j \in BelowIndices(dv, thr, ms) :
             \A j2 \in BelowIndices(dv, thr, ms) : j <= j2

FFDFns == {"compute_ffd_weights", "frac_diff_manual"}

\* compute_ffd_weights has returned
Returned == fn \in FFDFns /\ pc /= "ffd_loop"

\* the causal convolution at Python index tt, summed from the longest lag down
RECURSIVE Conv(_, _, _, _)
Conv(dv, xs, tt, lag) ==
    IF lag < 0 THEN Flt(0)
    ELSE RAdd(RMul(RefW(dv, lag), xs[tt - lag + 1]), Conv(dv, xs, tt, lag - 1))

----------------------------------------------------------------------------
(* Properties of compute_ffd_weights and frac_diff_manual.                 *)

\* C1: at every moment weights[0] = 1 and every later weight satisfies
\* weights[k] * k = -weights[k-1] * (d - k + 1).
C1_Recurrence ==
    fn \in FFDFns =>
        /\ weights[1] = Flt(1)
        /\ \A j \in 2..Len(weights) :
               RMul(weights[j], Flt(j - 1))
                   = RNeg(RMul(weights[j - 1], RAdd(RSub(d, Flt(j - 1)), Flt(1))))

C1_Witness ==
    /\ pc = "done"
    /\ fn = "compute_ffd_weights"
    /\ d = Frac(1, 2)
    /\ Len(weights) >= 4

\* C2: what is returned is exactly the prefix w[0..K-1] with K the first index
\* whose weight is below the threshold (or the length guard): the triggering
\* weight is left out, every returned weight of index >= 1 is at or above the
\* threshold, and nothing is appended after the first weight below it.
C2_PrefixUpToFirstBelow ==
    Returned =>
        LET K == StopIndex(d, threshold, max_size)
        IN  /\ Len(weights) = K
            /\ \A j \in 1..K : weights[j] = RefW(d, j - 1)
            /\ \A j \in 2..K : ~RLess(RAbs(weights[j]), threshold)
            /\ K < max_size =>
                   /\ w = RefW(d, K)
                   /\ RLess(RAbs(w), threshold)
                   /\ \A j \in 1..K : weights[j] /= w \/ j = 1

\* d = -2, threshold = 3: |w[1]| = 2 stops the loop although |w[2]| = 3.
C2_Witness ==
    /\ pc = "done"
    /\ fn = "compute_ffd_weights"
    /\ Len(weights) = 1
    /\ max_size >= 3
    /\ RLess(RAbs(RefW(d, 1)), threshold)
    /\ ~RLess(RAbs(RefW(d, 2)), threshold)

\* C3: generation terminates within the length guard: at every step the
\* series has between 1 and max_size weights, an iteration that stays in the
\* loop advances k by one and k never passes max_size, and the loop is left
\* only at a weight below the threshold or at the length guard.
C3_TerminatesWithinGuard ==
    [][(fn \in FFDFns) =>
           (/\ Len(weights') >= 1
            /\ Len(weights') <= max_size
            /\ k' <= max_size
            /\ (pc = "ffd_loop" /\ pc' = "ffd_loop") => k' = k + 1
            /\ (pc = "ffd_loop" /\ pc' /= "ffd_loop") =>
                   (RLess(RAbs(w'), threshold) \/ Len(weights') = max_size))]_vars

\* d = -1: every weight is 1 and only the length guard stops the loop.
C3_Witness ==
    /\ fn = "compute_ffd_weights"
    /\ pc = "done"
    /\ d = Flt(-1)
    /\ threshold = Flt(1)
    /\ max_size = MaxSize
    /\ Len(weights) = max_size

\* C4: every output of frac_diff_manual at an index t >= len(weights) - 1 is
\* the sum over k of weight(k) * series[t - k].
C4_CausalConvolution ==
    (fn = "frac_diff_manual" /\ pc = "done") =>
        \A tt \in 0..(Len(series) - 1) :
            tt >= Len(weights) - 1 =>
                result[tt + 1] = Conv(d, series, tt, Len(weights) - 1)

C4_Witness ==
    /\ fn = "frac_diff_manual"
    /\ pc = "done"
    /\ Len(weights) = 3
    /\ Len(series) = 4
    /\ series[2] /= series[3]
    /\ ~IsNaN(result[4])

\* C5: with d = 0 the weights are [1.0] and the filter output is the input
\* series at every index, none of them the sentinel.
C5_Identity ==
    (d = Flt(0) /\ Returned) =>
        /\ weights = <<Flt(1)>>
        /\ (fn = "frac_diff_manual" /\ pc = "done") =>
               /\ result = series
               /\ \A j \in 1..Len(result) : ~IsNaN(result[j])

C5_Witness ==
    /\ d = Flt(0)
    /\ fn = "frac_diff_manual"
    /\ pc = "done"
    /\ Len(series) = MaxLen
    /\ threshold = Flt(3)

\* C6: with d = 1 and a threshold <= 1 (and a length guard of at least 2) the
\* weights are [1, -1]; the filter output is the sentinel at index 0 and
\* series[t] - series[t-1] at every t >= 1.
C6_FirstDifference ==
    (d = Flt(1) /\ ~RLess(Flt(1), threshold) /\ max_size >= 2 /\ Returned) =>
        /\ weights = <<Flt(1), Flt(-1)>>
        /\ (fn = "frac_diff_manual" /\ pc = "done") =>
               \A j \in 1..Len(series) :
                   result[j] = IF j = 1 THEN NaN
                               ELSE RSub(series[j], series[j - 1])

C6_Witness ==
    /\ d = Flt(1)
    /\ threshold = Flt(1)
    /\ fn = "frac_diff_manual"
    /\ pc = "done"
    /\ Len(series) = MaxLen
    /\ series[MaxLen] /= series[MaxLen - 1]

----------------------------------------------------------------------------
(* Properties of the rolling functions.                                    *)

RollingFns == {"compute_half_life_ar1", "compute_rolling_adf",
               "compute_engle_granger", "compute_johansen"}

\* the 0/1 columns, created by np.zeros(n, dtype=int)
FlagColumns == {"is_mean_reverting", "is_stationary", "is_cointegrated"}

\* the rows the rolling loop runs over
InputRows == IF fn = "compute_johansen" THEN data.rows ELSE series

\* frac_diff_manual has created its result array
FilterStarted == fn = "frac_diff_manual" /\ pc \in {"fd_loop", "done"}

\* C7 as stated: before the first full window every output column, the flag
\* columns included, holds the sentinel.
C7_Original ==
    /\ FilterStarted =>
           \A tt \in 1..Len(result) : tt - 1 < Len(weights) - 1 => IsNaN(result[tt])
    /\ fn \in RollingFns =>
           \A c \in DOMAIN cols : \A tt \in 1..Len(cols[c]) :
               tt - 1 < window - 1 => cols[c][tt] = NaN

\* C7, amended: before the first full window the filter output and every
\* real-valued column hold the sentinel, and the flag columns hold 0.
C7_WarmUp ==
    /\ FilterStarted =>
           \A tt \in 1..Len(result) : tt - 1 < Len(weights) - 1 => IsNaN(result[tt])
    /\ fn \in RollingFns =>
           \A c \in DOMAIN cols : \A tt \in 1..Len(cols[c]) :
               tt - 1 < window - 1 =>
                   cols[c][tt] = IF c \in FlagColumns THEN Flt(0) ELSE NaN

C7_Witness ==
    /\ fn = "compute_engle_granger"
    /\ pc = "done"
    /\ window = 2
    /\ Len(series) = 3
    /\ ~IsNaN(cols.p_value[2])
    /\ ~IsNaN(cols.hedge_ratio[3])

\* one of the rolling loops takes the step for index i
RollingStep ==
    /\ pc \in {"hl_loop", "adf_loop", "eg_loop", "joh_loop"}
    /\ i' = i + 1

\* xs[tt - win + 1 .. tt], element by element
RefSlice(xs, tt, win) == [j \in 1..win |-> xs[tt - win + 1 + j]]

\* C8: every iteration is at an index i with window - 1 <= i < n and uses
\* exactly the window rows ending at i (of both series in Engle-Granger); the
\* first slice taken is the one at index window - 1.
C8_WindowSlices ==
    [][RollingStep =>
           (/\ i >= window - 1
            /\ i < Len(InputRows)
            /\ Len(window_data') = window
            /\ window_data' = RefSlice(InputRows, i, window)
            /\ fn = "compute_engle_granger" => x_win' = RefSlice(x, i, window)
            /\ window_data = << >> => i = window - 1)]_vars

C8_Witness ==
    /\ fn = "compute_johansen"
    /\ pc = "done"
    /\ window = 2
    /\ i = 3
    /\ window_data = <<data.rows[2], data.rows[3]>>

\* the lag pairs of the window ending at Python index tt, read off the series
RefLag(tt) == [j \in 1..(window - 1) |-> series[tt - window + 1 + j]]
RefCur(tt) == [j \in 1..(window - 1) |-> series[tt - window + 2 + j]]

\* N * sum(a * b) - sum(a) * sum(b), which is N * (N - 1) times the sample
\* covariance of a and b
RefCross(a, b) ==
    RSub(RMul(Flt(Len(a)), SeqSum(Times(a, b))), RMul(SeqSum(a), SeqSum(b)))

\* the sample variance of the lags exists (N >= 2) and exceeds 1e-10
RefRegular(tt) ==
    /\ window - 1 >= 2
    /\ AboveEps(RDiv(RefCross(RefLag(tt), RefLag(tt)),
                     Flt((window - 1) * (window - 2))))

\* C9: at every processed index ar1_coef is sample_cov(y_t, y_lag) /
\* sample_var(y_lag) when that variance exceeds 1e-10, and otherwise exactly 0
\* with the sentinel as half-life; every index from window - 1 on is processed.
C9_Ar1Coefficient ==
    fn = "compute_half_life_ar1" =>
        \A tt \in 0..(Len(series) - 1) :
            (tt >= window - 1 /\ (tt < i \/ pc = "done")) =>
                IF RefRegular(tt)
                THEN cols.ar1_coef[tt + 1] =
                         RDiv(RefCross(RefCur(tt), RefLag(tt)),
                              RefCross(RefLag(tt), RefLag(tt)))
                ELSE /\ cols.ar1_coef[tt + 1] = Flt(0)
                     /\ cols.half_life[tt + 1] = NaN
                     /\ cols.is_mean_reverting[tt + 1] = Flt(0)

\* window 3 over a series whose first window has lags 0, 2 and whose second
\* has the constant lags 2, 2
C9_Witness ==
    /\ fn = "compute_half_life_ar1"
    /\ pc = "done"
    /\ window = 3
    /\ Len(series) = 4
    /\ RefRegular(2)
    /\ ~RefRegular(3)
    /\ cols.ar1_coef[4] = Flt(0)
    /\ IsNaN(cols.half_life[4])

\* the lag pairs of the window debug_half_life_ar1 last looked at
DebugCur == PySlice(window_data, 1, Len(window_data))
DebugLag == PySlice(window_data, 0, -1)

----------------------------------------------------------------------------
(* Properties of compute_half_life_ar1.                                    *)

\* the loop of compute_half_life_ar1 has passed index tt
HalfLifeDone(tt) ==
    /\ fn = "compute_half_life_ar1"
    /\ tt >= window - 1
    /\ tt < i

\* -ln(2) / ln(phi), in closed form
RefHalfLife(phi) == [num |-> phi.num, den |-> phi.den, f |-> "-ln2/ln"]

\* C11: at every processed index the flag is set and the half-life is a
\* computed value exactly when 0 < phi < 1 strictly; for any other phi
\* (phi <= 0, phi >= 1, the default 0, exactly 1) the half-life is the
\* sentinel and the flag is 0.
C11_MeanRevertingIff ==
    \A tt \in 0..(Len(series) - 1) :
        HalfLifeDone(tt) =>
            LET phi == cols.ar1_coef[tt + 1]
            IN  IF phi.num > 0 /\ phi.num < phi.den
                THEN /\ cols.is_mean_reverting[tt + 1] = Flt(1)
                     /\ ~IsNaN(cols.half_life[tt + 1])
                ELSE /\ cols.is_mean_reverting[tt + 1] = Flt(0)
                     /\ cols.half_life[tt + 1] = NaN

\* the window 0, 50, 100 has phi = 1 exactly
C11_Witness ==
    /\ HalfLifeDone(2)
    /\ pc = "done"
    /\ window = 3
    /\ cols.ar1_coef[3] = Flt(1)
    /\ cols.half_life[3] = NaN
    /\ cols.is_mean_reverting[3] = Flt(0)

\* C12: every computed half-life is the cap window * 10 or an uncapped
\* -ln(2)/ln(phi) that does not exceed the cap; whenever the uncapped value
\* exceeds the cap (phi^(window * 10) > 1/2) the stored value is the cap.
C12_HalfLifeCap ==
    \A tt \in 0..(Len(series) - 1) :
        (HalfLifeDone(tt) /\ ~IsNaN(cols.half_life[tt + 1])) =>
            LET phi == cols.ar1_coef[tt + 1]
                b == PowBounds(phi.num, phi.den, window * 10)
                hl == cols.half_life[tt + 1]
            IN  /\ \/ hl = Flt(window * 10)
                   \/ hl = RefHalfLife(phi) /\ 2 * b[1] <= 10000
                /\ 2 * b[1] > 10000 => hl = Flt(window * 10)

\* the window 0, 50, 99 has phi = 49/50, and (49/50)^30 > 1/2
C12_Witness ==
    /\ HalfLifeDone(2)
    /\ pc = "done"
    /\ window = 3
    /\ cols.ar1_coef[3] = Frac(49, 50)
    /\ cols.half_life[3] = Flt(30)
    /\ cols.is_mean_reverting[3] = Flt(1)

\* the window ending at tt is noiseless AR(1): slice[j+1] = phi0 * slice[j]
\* with 0 < phi0 < 1, and its lag variance exceeds 1e-10
NoiselessAR1(tt) ==
    LET sl == RefSlice(series, tt, window)
        phi0 == RDiv(sl[2], sl[1])
    IN  /\ RefRegular(tt)
        /\ RLess(Flt(0), phi0)
        /\ RLess(phi0, Flt(1))
        /\ \A j \in 1..(window - 1) : sl[j + 1] = RMul(phi0, sl[j])

\* C13: on a noiseless AR(1) window with coefficient phi0 the estimator
\* returns phi = phi0, sets the flag, and reports -ln(2)/ln(phi0), or the cap
\* window * 10 where that is smaller.
C13_RoundTrip ==
    \A tt \in 0..(Len(series) - 1) :
        (HalfLifeDone(tt) /\ NoiselessAR1(tt)) =>
            LET sl == RefSlice(series, tt, window)
                phi0 == RDiv(sl[2], sl[1])
                b == PowBounds(phi0.num, phi0.den, window * 10)
                hl == cols.half_life[tt + 1]
            IN  /\ cols.ar1_coef[tt + 1] = phi0
                /\ cols.is_mean_reverting[tt + 1] = Flt(1)
                /\ hl \in {RefHalfLife(phi0), Flt(window * 10)}
                /\ 2 * b[2] < 10000 => hl = RefHalfLife(phi0)

\* the series 27, 18, 12, 8 with window 4: phi0 = 2/3
C13_Witness ==
    /\ HalfLifeDone(3)
    /\ pc = "done"
    /\ window = 4
    /\ series = <<Flt(27), Flt(18), Flt(12), Flt(8)>>
    /\ cols.ar1_coef[4] = Frac(2, 3)
    /\ cols.half_life[4] = RefHalfLife(Frac(2, 3))

----------------------------------------------------------------------------
(* Properties of the functions that call statsmodels.                      *)

TestFns == {"compute_rolling_adf", "compute_engle_granger", "compute_johansen"}

\* row tt of the output columns cs
RowOf(cs, tt) == [c \in DOMAIN cs |-> cs[c][tt + 1]]

\* a row as the function creates it
InitialRow == [c \in DOMAIN cols |-> IF c \in FlagColumns THEN Flt(0) ELSE NaN]

\* the loop of a function that calls statsmodels has passed index tt
TestDone(tt) ==
    /\ fn \in TestFns
    /\ tt >= window - 1
    /\ tt < i

\* 1 when pv < 0.05, else 0
RefFlag(pv) == IF pv.num * 20 < pv.den THEN Flt(1) ELSE Flt(0)

\* the values a returned stationarity test puts in a row
RefTestFields(o, flag) ==
    [c \in {"adf_stat", "p_value", "critical_1pct", "critical_5pct",
            "critical_10pct", flag} |->
        CASE c = "adf_stat" -> o.stat
          [] c = "p_value" -> o.pvalue
          [] c = "critical_1pct" -> o.crit[1]
          [] c = "critical_5pct" -> o.crit[2]
          [] c = "critical_10pct" -> o.crit[3]
          [] OTHER -> RefFlag(o.pvalue)]

\* f where defined, else g
Override(f, g) == [c \in DOMAIN g |-> IF c \in DOMAIN f THEN f[c] ELSE g[c]]

\* the number of leading trace statistics, of the first two, that exceed
\* their 5% critical value
RefRank(l, cv) ==
    Cardinality({r \in 1..2 : \A v \in 1..r : RLess(cv[v][2], l[v])})

\* row can be produced by the window ending at tt, whatever happened at the
\* windows before it
RowPossible(row, tt) ==
    LET returned == {o \in TestOutcomes : ~o.raised}
    IN  \/ row = InitialRow
        \/ /\ fn = "compute_rolling_adf"
           /\ \E o \in returned :
                  row = Override(RefTestFields(o, "is_stationary"), InitialRow)
        \/ /\ fn = "compute_engle_granger"
           /\ \E f \in OLSOutcomes(RefSlice(series, tt, window), RefSlice(x, tt, window)) :
                  /\ ~f.raised
                  /\ LET fitted == [InitialRow EXCEPT
                                       !.intercept = f.alpha,
                                       !.hedge_ratio = f.beta,
                                       !.spread = RSub(series[tt + 1],
                                                       RAdd(f.alpha, RMul(f.beta, x[tt + 1])))]
                     IN  \/ row = fitted
                         \/ \E o \in returned :
                                row = Override(RefTestFields(o, "is_cointegrated"), fitted)
        \/ /\ fn = "compute_johansen"
           /\ \E o \in JohansenOutcomes(data.n_vars) :
                  /\ ~o.raised
                  /\ row = IF data.n_vars < 2
                           THEN [InitialRow EXCEPT !.eigval_0 = o.eig[1]]
                           ELSE [rank |-> Flt(RefRank(o.lr1, o.cvt)),
                                 trace_stat_0 |-> o.lr1[1], trace_stat_1 |-> o.lr1[2],
                                 max_stat_0 |-> o.lr2[1], max_stat_1 |-> o.lr2[2],
                                 eigval_0 |-> o.eig[1], eigval_1 |-> o.eig[2]]

\* C14: whether or not the external test raises at index i, the loop goes on
\* to i + 1 and only row i is written; the row of a window is one the window
\* alone determines, so a failure before it changes nothing; the function
\* returns only after the last window.
C14_FailureIsolated ==
    [][(fn \in TestFns /\ pc /= "done") =>
           IF i < Len(InputRows)
           THEN /\ pc' = pc
                /\ i' = i + 1
                /\ \A tt \in 0..(Len(InputRows) - 1) :
                       tt /= i => RowOf(cols', tt) = RowOf(cols, tt)
                /\ RowPossible(RowOf(cols', i), i)
           ELSE /\ pc' = "done"
                /\ cols' = cols]_vars

\* rolling ADF, window 1: the test raised at index 0 and returned at index 1
C14_Witness ==
    /\ fn = "compute_rolling_adf"
    /\ pc = "done"
    /\ window = 1
    /\ Len(series) >= 2
    /\ RowOf(cols, 0) = InitialRow
    /\ ~IsNaN(cols.p_value[2])
    /\ cols.is_stationary[2] = Flt(1)

\* C15 as stated: in compute_engle_granger a processed row whose test did
\* not return (no p_value) holds the sentinel in every real-valued column.
C15_FailedRowAllSentinel ==
    \A tt \in 0..(Len(series) - 1) :
        (fn = "compute_engle_granger" /\ TestDone(tt) /\ IsNaN(cols.p_value[tt + 1])) =>
            \A c \in {"hedge_ratio", "intercept", "spread", "adf_stat", "p_value",
                      "critical_1pct", "critical_5pct", "critical_10pct"} :
                IsNaN(cols[c][tt + 1])

\* the flag column of the function
FlagOf == IF fn = "compute_rolling_adf" THEN "is_stationary" ELSE "is_cointegrated"

\* C16: wherever the test returned a p-value, the flag of the row
\* (is_stationary, is_cointegrated) is 1 exactly when p_value < 0.05, so a
\* p-value of exactly 0.05 gives 0.
C16_FlagIsStrictlyBelow ==
    \A tt \in 0..(Len(series) - 1) :
        (/\ fn \in {"compute_rolling_adf", "compute_engle_granger"}
         /\ TestDone(tt)
         /\ ~IsNaN(cols.p_value[tt + 1])) =>
            LET pv == cols.p_value[tt + 1]
            IN  cols[FlagOf][tt + 1] = Flt(1) <=> pv.num * 20 < pv.den

\* Engle-Granger, window 2: p = 0.05 at index 1 and p = 0.01 at index 2
C16_Witness ==
    /\ fn = "compute_engle_granger"
    /\ pc = "done"
    /\ window = 2
    /\ Len(series) = 3
    /\ cols.p_value[2] = Frac(1, 20)
    /\ cols.is_cointegrated[2] = Flt(0)
    /\ cols.p_value[3] = Frac(1, 100)
    /\ cols.is_cointegrated[3] = Flt(1)

\* compute_johansen has just written the row of index i - 1 from test_result
JohansenRowWritten ==
    /\ fn = "compute_johansen"
    /\ i >= window
    /\ ~IsNaN(cols.trace_stat_0[i])

\* the trace statistic at position v of the last result exceeds its critical
\* value in column c of cvt (1: 10%, 2: 5%, 3: 1%)
Exceeds(v, c) == RLess(test_result.cvt[v][c], test_result.lr1[v])

\* C17: the rank of a written row is 0 when lr1[0] does not exceed its 5%
\* value, whatever lr1[1] is; 1 when lr1[0] does and lr1[1] does not; 2 when
\* both do.  Only the 5% column is read.
C17_SequentialRank ==
    JohansenRowWritten =>
        cols.rank[i] = IF ~Exceeds(1, 2) THEN Flt(0)
                       ELSE IF ~Exceeds(2, 2) THEN Flt(1)
                       ELSE Flt(2)

\* lr1[0] = 15 is above the 10% value 14 and not above the 5% value 15, and
\* lr1[1] = 16 is above the 5% value: the rank is 0
C17_Witness ==
    /\ JohansenRowWritten
    /\ data.n_vars = 2
    /\ cols.trace_stat_0[i] = Flt(15)
    /\ cols.trace_stat_1[i] = Flt(16)
    /\ cols.rank[i] = Flt(0)
    /\ i >= 2
    /\ cols.trace_stat_0[i - 1] = Flt(16)
    /\ cols.trace_stat_1[i - 1] = Flt(15)
    /\ cols.rank[i - 1] = Flt(1)

\* the positions, of the first two, whose trace statistic in row tt exceeds
\* the 5% critical value
ExceedSet(tt) ==
    {v \in 1..2 :
        RLess(test_result.cvt[v][2],
              IF v = 1 THEN cols.trace_stat_0[tt + 1] ELSE cols.trace_stat_1[tt + 1])}

\* row tt of compute_johansen holds a rank
RankComputed(tt) ==
    /\ fn = "compute_johansen"
    /\ TestDone(tt)
    /\ ~IsNaN(cols.rank[tt + 1])

\* C18: every computed rank is an integer in 0..n_vars, and between two rows
\* the one whose exceeding statistics include the other's has the rank that
\* is not lower.
C18_RankRangeAndMonotone ==
    \A t1 \in 0..(Len(InputRows) - 1) :
        RankComputed(t1) =>
            /\ cols.rank[t1 + 1].den = 1
            /\ cols.rank[t1 + 1].num \in 0..data.n_vars
            /\ \A t2 \in 0..(Len(InputRows) - 1) :
                   (RankComputed(t2) /\ ExceedSet(t1) \subseteq ExceedSet(t2)) =>
                       cols.rank[t1 + 1].num <= cols.rank[t2 + 1].num

\* rows with none, the first, and both statistics above the 5% value
C18_Witness ==
    /\ fn = "compute_johansen"
    /\ pc = "done"
    /\ window = 1
    /\ Len(data.rows) = 3
    /\ RankComputed(0) /\ ExceedSet(0) = {} /\ cols.rank[1] = Flt(0)
    /\ RankComputed(1) /\ ExceedSet(1) = {1} /\ cols.rank[2] = Flt(1)
    /\ RankComputed(2) /\ ExceedSet(2) = {1, 2} /\ cols.rank[3] = Flt(2)

\* C19 as stated: with n_vars = 3 and all three trace statistics above their
\* 5% critical values the rank of the row is 3.
C19_RankContinuesChain ==
    (/\ JohansenRowWritten
     /\ data.n_vars = 3
     /\ \A v \in 1..3 : Exceeds(v, 2)) =>
        cols.rank[i] = Flt(3)

\* C20 as stated: a rolling function called with a window longer than the
\* series, or with an empty series, does not return a result.
C20_FailsFast ==
    (/\ fn \in RollingFns
     /\ window > Len(InputRows) \/ Len(InputRows) = 0) =>
        pc /= "done"

----------------------------------------------------------------------------
(* Properties of the outputs as a whole.                                   *)

\* C21: the filter output and every column of every rolling function have
\* the length of the input series, at every moment from their creation on,
\* whether or not any window fits.
C21_SameLength ==
    /\ FilterStarted => Len(result) = Len(series)
    /\ fn \in RollingFns =>
           \A c \in DOMAIN cols : Len(cols[c]) = Len(InputRows)

\* compute_johansen on two rows with window 3: no window fits
C21_Witness ==
    /\ fn = "compute_johansen"
    /\ pc = "done"
    /\ window = 3
    /\ Len(data.rows) = 2
    /\ Len(cols.rank) = 2
    /\ Len(cols.eigval_1) = 2

\* the convolution of the weights of dv with the slice sl, whose last element
\* is the current one: the sum over j of weight(Len(sl) - j) * sl[j]
RECURSIVE SliceConv(_, _, _)
SliceConv(dv, sl, j) ==
    IF j = 0 THEN Flt(0)
    ELSE RAdd(SliceConv(dv, sl, j - 1), RMul(RefW(dv, Len(sl) - j), sl[j]))

\* row is the row of compute_half_life_ar1 for the window slice sl
HalfLifeRowFromSlice(row, sl) ==
    LET lag == SubSeq(sl, 1, Len(sl) - 1)
        cur == SubSeq(sl, 2, Len(sl))
        regular == /\ Len(lag) >= 2
                   /\ AboveEps(RDiv(RefCross(lag, lag),
                                    Flt(Len(lag) * (Len(lag) - 1))))
        phi == IF regular THEN RDiv(RefCross(cur, lag), RefCross(lag, lag))
               ELSE Flt(0)
        b == PowBounds(phi.num, phi.den, Len(sl) * 10)
    IN  /\ row.ar1_coef = phi
        /\ IF phi.num > 0 /\ phi.num < phi.den
           THEN /\ row.is_mean_reverting = Flt(1)
                /\ row.half_life \in {RefHalfLife(phi), Flt(Len(sl) * 10)}
                /\ 2 * b[1] > 10000 => row.half_life = Flt(Len(sl) * 10)
                /\ 2 * b[2] < 10000 => row.half_life = RefHalfLife(phi)
           ELSE /\ row.is_mean_reverting = Flt(0)
                /\ row.half_life = NaN

\* the regression columns of row are those of compute_engle_granger for the
\* window slices ys and xs
RegressionFromSlices(row, ys, xs) ==
    \/ /\ IsNaN(row.intercept)
       /\ IsNaN(row.hedge_ratio)
       /\ IsNaN(row.spread)
    \/ \E f \in OLSOutcomes(ys, xs) :
           /\ ~f.raised
           /\ row.intercept = f.alpha
           /\ row.hedge_ratio = f.beta
           /\ row.spread = RSub(ys[Len(ys)], RAdd(f.alpha, RMul(f.beta, xs[Len(xs)])))

\* C22: every output row is a function of its window slice alone: the filter
\* output at t of series[t-len(weights)+1 .. t], the half-life row at t of
\* series[t-window+1 .. t], the Engle-Granger regression of the row just
\* written of the slices of y and x.  Two inputs that agree on the slice
\* therefore give the same row.
C22_RowFromSlice ==
    /\ (fn = "frac_diff_manual" /\ pc = "done") =>
           \A tt \in 0..(Len(series) - 1) :
               tt >= Len(weights) - 1 =>
                   result[tt + 1] =
                       SliceConv(d, RefSlice(series, tt, Len(weights)), Len(weights))
    /\ \A tt \in 0..(Len(series) - 1) :
           HalfLifeDone(tt) =>
               HalfLifeRowFromSlice(RowOf(cols, tt), RefSlice(series, tt, window))
    /\ (fn = "compute_engle_granger" /\ i >= window) =>
           RegressionFromSlices(RowOf(cols, i - 1),
                                RefSlice(series, i - 1, window),
                                RefSlice(x, i - 1, window))

\* window 3 over four values: the rows 2 and 3 are computed, and the values
\* outside each window differ from those inside
C22_Witness ==
    /\ fn = "compute_half_life_ar1"
    /\ pc = "done"
    /\ window = 3
    /\ Len(series) = 4
    /\ series[1] /= series[4]
    /\ cols.ar1_coef[3] /= cols.ar1_coef[4]
    /\ cols.ar1_coef[3] /= Flt(0)
    /\ cols.ar1_coef[4] /= Flt(0)

\* C24: no step changes an input series or a parameter; the weights and
\* their length do not change once the filter loop has started; and an
\* iteration changes only the output row of its own index.
C24_NothingCarried ==
    [][/\ series' = series /\ x' = x /\ data' = data
       /\ d' = d /\ threshold' = threshold
       /\ (fn = "frac_diff_manual" /\ pc \in {"fd_loop", "done"}) =>
              (weights' = weights /\ window' = window)
       /\ (fn \in RollingFns) => window' = window
       /\ (pc = "fd_loop" /\ pc' = "fd_loop") =>
              \A j \in 1..Len(result) : j /= t + 1 => result'[j] = result[j]
       /\ (fn \in RollingFns /\ pc /= "done" /\ pc' /= "done") =>
              \A tt \in 0..(Len(InputRows) - 1) :
                  tt /= i => RowOf(cols', tt) = RowOf(cols, tt)]_vars

\* three windows of a filter with two weights have been processed
C24_Witness ==
    /\ fn = "frac_diff_manual"
    /\ pc = "done"
    /\ Len(weights) = 2
    /\ Len(series) = 4
    /\ ~IsNaN(result[2]) /\ ~IsNaN(result[3]) /\ ~IsNaN(result[4])
    /\ result[2] /= result[3]

----------------------------------------------------------------------------
(* Further properties of compute_ffd_weights and frac_diff_manual.         *)

\* C25 as stated: for every d the magnitudes of the returned weights decay
\* strictly.
C25_Original ==
    Returned =>
        \A j \in 2..Len(weights) : RLess(RAbs(weights[j]), RAbs(weights[j - 1]))

\* C25, amended: for -1 < d < 1 the magnitudes of the returned weights decay
\* strictly.
C25_DecayInsideUnit ==
    (Returned /\ RLess(Flt(-1), d) /\ RLess(d, Flt(1))) =>
        \A j \in 2..Len(weights) : RLess(RAbs(weights[j]), RAbs(weights[j - 1]))

C25_Witness ==
    /\ fn = "compute_ffd_weights"
    /\ pc = "done"
    /\ d = Frac(-1, 2)
    /\ Len(weights) >= 4

\* C27: the filter loop is entered only at indices t with t - (window - 1)
\* >= 0 and t < n, so every series[t - k] it reads is inside the series; and
\* with more weights than series elements the output has the input's length
\* and holds the sentinel everywhere.
C27_ShortSeries ==
    /\ (fn = "frac_diff_manual" /\ pc = "fd_loop" /\ t < Len(series)) =>
           \A kk \in 0..(window - 1) : t - kk >= 0 /\ t - kk < Len(series)
    /\ (FilterStarted /\ Len(weights) > Len(series)) =>
           /\ Len(result) = Len(series)
           /\ \A j \in 1..Len(result) : IsNaN(result[j])
           /\ t >= Len(series)

C27_Witness ==
    /\ fn = "frac_diff_manual"
    /\ pc = "done"
    /\ Len(weights) = 3
    /\ Len(series) = 2
    /\ result = <<NaN, NaN>>

\* the binomial coefficient C(n, j)
RECURSIVE Binomial(_, _)
Binomial(n, j) ==
    IF j = 0 \/ j = n THEN 1
    ELSE IF j < 0 \/ j > n THEN 0
    ELSE Binomial(n - 1, j - 1) + Binomial(n - 1, j)

\* C28: for a positive integer d, a threshold <= 1 and a length guard above
\* d, the weights returned are the d + 1 values (-1)^k * C(d, k), k = 0..d.
C28_Binomial ==
    (/\ Returned
     /\ d.den = 1 /\ d.num >= 1
     /\ ~RLess(Flt(1), threshold)
     /\ max_size > d.num) =>
        /\ Len(weights) = d.num + 1
        /\ \A j \in 0..d.num :
               weights[j + 1] =
                   Flt((IF j % 2 = 0 THEN 1 ELSE -1) * Binomial(d.num, j))

C28_Witness ==
    /\ fn = "compute_ffd_weights"
    /\ pc = "done"
    /\ d = Flt(3)
    /\ threshold = Flt(1)
    /\ weights = <<Flt(1), Flt(-3), Flt(3), Flt(-1)>>

\* C29: in every row of compute_engle_granger the five test columns are all
\* set or all the sentinel; a row flagged cointegrated has a p-value below
\* 0.05 and its regression columns set; a spread that is set equals
\* y - intercept - hedge_ratio * x of its row.
C29_RowConsistent ==
    fn = "compute_engle_granger" =>
        \A j \in 1..Len(series) :
            LET tests == {"adf_stat", "p_value", "critical_1pct", "critical_5pct",
                          "critical_10pct"}
            IN  /\ \/ \A c \in tests : IsNaN(cols[c][j])
                   \/ \A c \in tests : ~IsNaN(cols[c][j])
                /\ cols.is_cointegrated[j] = Flt(1) =>
                       /\ ~IsNaN(cols.p_value[j])
                       /\ cols.p_value[j].num * 20 < cols.p_value[j].den
                       /\ ~IsNaN(cols.hedge_ratio[j])
                       /\ ~IsNaN(cols.intercept[j])
                       /\ ~IsNaN(cols.spread[j])
                /\ ~IsNaN(cols.spread[j]) =>
                       cols.spread[j] =
                           RSub(series[j], RAdd(cols.intercept[j],
                                                RMul(cols.hedge_ratio[j], x[j])))

\* window 2 over three rows: the test raised at index 1 after the fit, and
\* returned p = 0.01 at index 2
C29_Witness ==
    /\ fn = "compute_engle_granger"
    /\ pc = "done"
    /\ window = 2
    /\ Len(series) = 3
    /\ ~IsNaN(cols.hedge_ratio[2]) /\ IsNaN(cols.p_value[2])
    /\ cols.is_cointegrated[3] = Flt(1)
    /\ cols.spread[3] /= Flt(0)

----------------------------------------------------------------------------
(* parquet_explorer.py, main in directory mode (lines 105-166).  A line of *)
(* input is a sequence of one-character strings.  One run is one call of   *)
(* main with a directory as path.                                          *)

\* the largest number of parquet files find_parquet_files returns
MaxFiles == 3

\* the longest line drawn from the whole alphabet
MaxInputLen == 2

\* the characters str.strip() and int() skip at both ends
Whitespace == {" "}

\* the characters of the lines typed
Alphabet == {" ", "q", "Q", "0", "1", "2", "-"}

\* further lines: a plus sign, grouping underscores, blanks on both sides, a
\* leading zero, the quit letter within blanks and within a word
LongInputs ==
    {<<"+", "1">>, <<"+">>, <<"_", "1">>, <<"1", "_">>, <<"+", "-", "1">>,
     <<" ", "1", " ">>, <<" ", "2", " ", " ">>, <<"+", "0", "2">>,
     <<"1", "_", "2">>, <<"0", "_", "1">>, <<"1", " ", "2">>,
     <<" ", "Q", " ">>, <<"q", "u", "i", "t">>, <<"1", ".", "0">>,
     <<"-", " ", "1">>, <<"1", "_", "_", "1">>}

\* what a call of input() does: it returns a line, or the user presses
\* Ctrl+C, or standard input is at its end
InputEvents ==
    {[kind |-> "line", line |-> l] :
         l \in SeqsUpTo(Alphabet, MaxInputLen) \cup LongInputs}
    \cup {[kind |-> "KeyboardInterrupt"], [kind |-> "EOFError"]}

\* find_parquet_files(root_dir), lines 16-27: pairs (rel_path, full_path) in
\* the order os.walk yields them, which is not the order of the names
Listings ==
    UNION {{[j \in 1..n |-> <<j, [root |-> "path", rel |-> j]>>],
            [j \in 1..n |-> <<n + 1 - j, [root |-> "path", rel |-> n + 1 - j]>>]} :
           n \in 0..MaxFiles}

\* load_parquet(file_path), lines 30-36: pd.read_parquet and set_index return
\* the frame, or raise: pyarrow's ArrowInvalid is a ValueError, a missing
\* "index" column is a KeyError, and the user may press Ctrl+C meanwhile
LoadOutcomes == {"loaded", "ValueError", "KeyError", "KeyboardInterrupt"}

\* str.strip()
RECURSIVE PyStrip(_)
PyStrip(s) ==
    IF s = << >> THEN s
    ELSE IF Head(s) \in Whitespace THEN PyStrip(Tail(s))
    ELSE IF s[Len(s)] \in Whitespace THEN PyStrip(SubSeq(s, 1, Len(s) - 1))
    ELSE s

\* str.lower(); "Q" is the upper-case letter of the alphabet
PyLower(s) == [j \in 1..Len(s) |-> IF s[j] = "Q" THEN "q" ELSE s[j]]

IsDigit(c) == c \in {"0", "1", "2", "3", "4", "5", "6", "7", "8", "9"}

DigitValue(c) ==
    CASE c = "0" -> 0 [] c = "1" -> 1 [] c = "2" -> 2 [] c = "3" -> 3
      [] c = "4" -> 4 [] c = "5" -> 5 [] c = "6" -> 6 [] c = "7" -> 7
      [] c = "8" -> 8 [] c = "9" -> 9

\* int(): the digits after the sign, read from the left; an underscore is
\* accepted between two digits only
RECURSIVE int_digits(_, _, _)
int_digits(s, acc, after_digit) ==
    IF s = << >> THEN [raised |-> ~after_digit, value |-> acc]
    ELSE IF IsDigit(Head(s))
         THEN int_digits(Tail(s), 10 * acc + DigitValue(Head(s)), TRUE)
    ELSE IF /\ Head(s) = "_"
            /\ after_digit
            /\ Tail(s) /= << >>
            /\ IsDigit(Head(Tail(s)))
         THEN int_digits(Tail(s), acc, FALSE)
    ELSE [raised |-> TRUE, value |-> 0]

\* int(s) for a string s: blanks at both ends are skipped, one sign may
\* precede the digits; raised stands for ValueError
PyInt(s) ==
    LET body == PyStrip(s)
        signed == body /= << >> /\ Head(body) \in {"+", "-"}
        parsed == int_digits(IF signed THEN Tail(body) ELSE body, 0, FALSE)
    IN  IF parsed.raised THEN parsed
        ELSE [raised |-> FALSE,
              value |-> IF signed /\ Head(body) = "-"
                        THEN -parsed.value ELSE parsed.value]

\* seq[idx] of Python: a negative idx counts from the end
PyIndex(seq, idx) == seq[IF idx < 0 THEN Len(seq) + idx + 1 ELSE idx + 1]

\* mutant of InRange: every index Python accepts, the negative ones included
InRange_signed(idx, n) == -n <= idx /\ idx < n

\* line 132:  0 <= idx < len(parquet_files)
InRange(idx, n) == 0 <= idx /\ idx < n

\* sys.exit(0)
Exit0 ==
    /\ pc' = "px_exit"
    /\ exit_code' = "0"
    /\ UNCHANGED <<df, viewer>>

\* an exception no clause catches: the interpreter prints the traceback
Traceback ==
    /\ pc' = "px_exit"
    /\ exit_code' = "traceback"
    /\ UNCHANGED <<df, viewer>>

\* the message is printed and the loop goes round
Reprompt == UNCHANGED <<pc, exit_code, df, viewer>>

\* lines 108-122: the search, the listing and the single file loaded
\* without asking
explorer_dir ==
    /\ pc = "px_dir"
    /\ IF Len(parquet_files) = 0
       THEN /\ pc' = "px_exit"
            /\ exit_code' = "1"
            /\ UNCHANGED df
       ELSE IF Len(parquet_files) = 1
       THEN \E out \in LoadOutcomes :
                IF out = "loaded"
                THEN /\ df' = <<PyIndex(parquet_files, 0)[2]>>
                     /\ pc' = "px_launch"
                     /\ UNCHANGED exit_code
                ELSE /\ pc' = "px_exit"
                     /\ exit_code' = "traceback"
                     /\ UNCHANGED df
       ELSE /\ pc' = "px_select"
            /\ UNCHANGED <<df, exit_code>>
    /\ UNCHANGED <<parquet_files, choice, event, viewer>>
    /\ UNCHANGED <<par_vars, args, window, ffd_vars, fd_vars, roll_vars, dbg_vars>>

\* lines 125-141, one iteration of "while True"
explorer_select ==
    /\ pc = "px_select"
    /\ \E ev \in InputEvents :
           /\ event' = ev
           /\ IF ev.kind = "KeyboardInterrupt"
              THEN Exit0 /\ UNCHANGED choice
              ELSE IF ev.kind = "EOFError"
              THEN Traceback /\ UNCHANGED choice
              ELSE /\ choice' = PyStrip(ev.line)
                   /\ IF PyLower(choice') = <<"q">>
                      THEN Exit0
                      ELSE LET parsed == PyInt(choice')
                               idx == parsed.value - 1
                           IN  IF parsed.raised
                               THEN Reprompt
                               ELSE IF InRange(idx, Len(parquet_files))
                               THEN \E out \in LoadOutcomes :
                                        CASE out = "loaded" ->
                                                 /\ df' = <<PyIndex(parquet_files, idx)[2]>>
                                                 /\ pc' = "px_launch"
                                                 /\ UNCHANGED <<exit_code, viewer>>
                                          [] out = "ValueError" -> Reprompt
                                          [] out = "KeyboardInterrupt" -> Exit0
                                          [] out = "KeyError" -> Traceback
                               ELSE Reprompt
    /\ UNCHANGED parquet_files
    /\ UNCHANGED <<par_vars, args, window, ffd_vars, fd_vars, roll_vars, dbg_vars>>

\* lines 143-158: the banner and dtale.show(df, ...)
explorer_launch ==
    /\ pc = "px_launch"
    /\ viewer' = TRUE
    /\ pc' = "px_running"
    /\ UNCHANGED <<parquet_files, choice, event, df, exit_code>>
    /\ UNCHANGED <<par_vars, args, window, ffd_vars, fd_vars, roll_vars, dbg_vars>>

\* lines 162-166: Ctrl+C ends the sleep loop and main returns
explorer_shutdown ==
    /\ pc = "px_running"
    /\ pc' = "px_exit"
    /\ exit_code' = "0"
    /\ UNCHANGED <<parquet_files, choice, event, df, viewer>>
    /\ UNCHANGED <<par_vars, args, window, ffd_vars, fd_vars, roll_vars, dbg_vars>>

\* main(), path a directory: line 105
InitExplorer ==
    /\ fn = "main"
    /\ pc = "px_dir"
    /\ parquet_files \in Listings
    /\ choice = << >>
    /\ event = [kind |-> "None"]
    /\ df = << >>
    /\ viewer = FALSE
    /\ exit_code = "None"
    /\ series = << >>
    /\ window = 0
    /\ NoFFD
    /\ NoRolling
    /\ NoDebug
    /\ NoWorkers

ExplorerNext ==
    \/ explorer_dir
    \/ explorer_select
    \/ explorer_launch
    \/ explorer_shutdown

ExplorerSpec == InitExplorer /\ [][ExplorerNext]_vars

\* the characters of a line between its first and its last non-blank one
Trimmed(s) ==
    LET solid == {j \in 1..Len(s) : s[j] \notin Whitespace}
    IN  IF solid = {} THEN << >>
        ELSE SubSeq(s, CHOOSE a \in solid : \A b \in solid : a <= b,
                       CHOOSE a \in solid : \A b \in solid : a >= b)

\* a decimal numeral: digits, with single underscores between digits
IsNumeral(u) ==
    /\ Len(u) > 0
    /\ \A j \in 1..Len(u) : IsDigit(u[j]) \/ u[j] = "_"
    /\ IsDigit(u[1])
    /\ IsDigit(u[Len(u)])
    /\ \A j \in 1..(Len(u) - 1) : ~(u[j] = "_" /\ u[j + 1] = "_")

\* the number a numeral denotes: digit j of m counts 10^(m - j)
NumeralValue(u) ==
    LET ds == SelectSeq(u, IsDigit)
        place[j \in 0..Len(ds)] ==
            IF j = 0 THEN 0
            ELSE place[j - 1] + DigitValue(ds[j]) * IntPow(10, Len(ds) - j)
    IN  place[Len(ds)]

\* the integers a line parses as: none, or one
LineNumber(s) ==
    LET u == Trimmed(s)
        signed == u /= << >> /\ u[1] \in {"+", "-"}
        numeral == IF signed THEN Tail(u) ELSE u
    IN  IF IsNumeral(numeral)
        THEN {IF signed /\ u[1] = "-" THEN -NumeralValue(numeral)
              ELSE NumeralValue(numeral)}
        ELSE {}

\* the line is the letter q, in either case, within blanks
IsQuit(s) == Trimmed(s) \in {<<"q">>, <<"Q">>}

\* C30: with more than one file found, a file is loaded only in a step of the
\* selection loop whose input line parses as an integer v in 1..number of
\* files, and the file loaded is the one listed at v; a line that is neither
\* q nor such a number leaves the loop waiting with nothing loaded; the line
\* q, in either case, ends the process with status 0, nothing loaded and no
\* viewer; the viewer is launched only with a file loaded and before any exit
C30_SelectionLoop ==
    [][(fn = "main") =>
       (LET n == Len(parquet_files)
            line == event'.line
        IN  /\ (n > 1 /\ Len(df) = 0 /\ Len(df') > 0) =>
                   (/\ pc = "px_select"
                    /\ event'.kind = "line"
                    /\ \E v \in LineNumber(line) \cap (1..n) :
                           df' = <<parquet_files[v][2]>>)
            /\ (/\ pc = "px_select"
                /\ event'.kind = "line"
                /\ ~IsQuit(line)
                /\ LineNumber(line) \cap (1..n) = {}) =>
                   (/\ pc' = "px_select"
                    /\ df' = << >>
                    /\ exit_code' = "None"
                    /\ ~viewer')
            /\ (pc = "px_select" /\ event'.kind = "line" /\ IsQuit(line)) =>
                   (/\ pc' = "px_exit"
                    /\ exit_code' = "0"
                    /\ df' = << >>
                    /\ ~viewer')
            /\ (viewer' /\ ~viewer) => (Len(df) > 0 /\ exit_code = "None")
            /\ (pc = "px_exit") => UNCHANGED vars)]_vars

\* C30 witness: three files, listed in reverse; the line " 2" has loaded the
\* second file listed and the viewer is open
C30_Witness ==
    /\ fn = "main"
    /\ Len(parquet_files) = 3
    /\ parquet_files[1][1] = 3
    /\ event = [kind |-> "line", line |-> <<" ", "2">>]
    /\ choice = <<"2">>
    /\ df = <<parquet_files[2][2]>>
    /\ viewer
    /\ pc = "px_running"

----------------------------------------------------------------------------
(* The loops over the time index of frac_diff_manual (lines 46-50) and of  *)
(* compute_engle_granger (lines 174-202) with their iterations handed to   *)
(* concurrent workers: a worker takes any index not yet taken, runs the    *)
(* loop body on it (reading the inputs), and later writes the row, with    *)
(* steps of other workers in between and no lock.                          *)

\* the number of workers
NumWorkers == 2

\* d and threshold of the parallel runs: windows of 2 to MaxSize weights
ParDValues == {Frac(1, 2), Flt(1), Flt(2)}

ParThresholds == {Frac(1, 100), Frac(1, 4)}

\* the pairs of the parallel runs: x alternates, y is any series
ParPairInputs == {p \in PairInputs : \A j \in 1..Len(p[2]) : p[2][j] = Flt(j % 2)}

\* lines 175-202, the body of one iteration at index iv: the columns it
\* writes at row iv, by what OLS and coint do
eg_body(iv) ==
    LET y_win == WindowSlice(series, iv, window)
        xw == WindowSlice(x, iv, window)
        no_write == [c \in {} |-> NaN]
        fitted(ols) ==
            [c \in {"intercept", "hedge_ratio", "spread"} |->
                CASE c = "intercept" -> ols.alpha
                  [] c = "hedge_ratio" -> ols.beta
                  [] OTHER -> RSub(RSub(series[iv + 1], ols.alpha),
                                   RMul(ols.beta, x[iv + 1]))]
        tested(ols, coint_result) ==
            [c \in {"intercept", "hedge_ratio", "spread", "adf_stat", "p_value",
                    "critical_1pct", "critical_5pct", "critical_10pct",
                    "is_cointegrated"} |->
                CASE c \in {"intercept", "hedge_ratio", "spread"} -> fitted(ols)[c]
                  [] c = "adf_stat" -> coint_result.stat
                  [] c = "p_value" -> coint_result.pvalue
                  [] c = "critical_1pct" -> coint_result.crit[1]
                  [] c = "critical_5pct" -> coint_result.crit[2]
                  [] c = "critical_10pct" -> coint_result.crit[3]
                  [] OTHER -> BelowFivePercent(coint_result.pvalue)]
    IN  UNION {IF ols.raised THEN {no_write}
               ELSE {IF coint_result.raised THEN fitted(ols)
                     ELSE tested(ols, coint_result) :
                         coint_result \in TestOutcomes} :
               ols \in OLSOutcomes(y_win, xw)}

\* lines 46 and 174: the indices of range(window - 1, n), handed out
par_fork ==
    /\ pc \in {"fd_loop", "eg_loop"}
    /\ todo' = {j \in (IF pc = "fd_loop" THEN t ELSE i)..(Len(series) - 1) : TRUE}
    /\ inflight' = {}
    /\ pc' = "par_loop"
    /\ UNCHANGED <<px_vars, args, window, ffd_vars, fd_vars, roll_vars, dbg_vars>>

\* the worker is between two iterations
Idle(wk) == \A job \in inflight : job.worker /= wk

\* lines 47-49 at index j, by worker wk
par_fd_compute(wk) ==
    /\ pc = "par_loop"
    /\ fn = "frac_diff_manual"
    /\ Idle(wk)
    /\ \E j \in todo :
           /\ todo' = todo \ {j}
           /\ inflight' = inflight \cup
                  {[worker |-> wk, idx |-> j,
                    val |-> sum_val(weights, series, j, window)]}
    /\ UNCHANGED <<px_vars, args, pc, window, ffd_vars, fd_vars, roll_vars, dbg_vars>>

\* mutant of par_fd_write: the sum is also written back into series[t]
par_fd_write_inplace(wk) ==
    /\ pc = "par_loop"
    /\ fn = "frac_diff_manual"
    /\ \E job \in inflight :
           /\ job.worker = wk
           /\ result' = [result EXCEPT ![job.idx + 1] = job.val]
           /\ series' = [series EXCEPT ![job.idx + 1] = job.val]
           /\ inflight' = inflight \ {job}
    /\ UNCHANGED <<px_vars, fn, d, threshold, max_size, x, data, pc, window,
                   ffd_vars, t, roll_vars, dbg_vars, todo>>

\* line 50 at the worker's index
par_fd_write(wk) ==
    /\ pc = "par_loop"
    /\ fn = "frac_diff_manual"
    /\ \E job \in inflight :
           /\ job.worker = wk
           /\ result' = [result EXCEPT ![job.idx + 1] = job.val]
           /\ inflight' = inflight \ {job}
    /\ UNCHANGED <<px_vars, args, pc, window, ffd_vars, t, roll_vars, dbg_vars, todo>>

\* lines 175-193 at index j, by worker wk: the slices, OLS and coint
par_eg_compute(wk) ==
    /\ pc = "par_loop"
    /\ fn = "compute_engle_granger"
    /\ Idle(wk)
    /\ \E j \in todo :
           /\ todo' = todo \ {j}
           /\ \E writes \in eg_body(j) :
                  inflight' = inflight \cup {[worker |-> wk, idx |-> j, val |-> writes]}
    /\ UNCHANGED <<px_vars, args, pc, window, ffd_vars, fd_vars, roll_vars, dbg_vars>>

\* lines 185-189 and 194-199 at the worker's index
par_eg_write(wk) ==
    /\ pc = "par_loop"
    /\ fn = "compute_engle_granger"
    /\ \E job \in inflight :
           /\ job.worker = wk
           /\ cols' = [c \in DOMAIN cols |->
                          IF c \in DOMAIN job.val
                          THEN [cols[c] EXCEPT ![job.idx + 1] = job.val[c]]
                          ELSE cols[c]]
           /\ inflight' = inflight \ {job}
    /\ UNCHANGED <<px_vars, args, pc, window, ffd_vars, fd_vars, i, window_data,
                   x_win, test_result, dbg_vars, todo>>

\* lines 52 and 204: every index has been taken and written
par_join ==
    /\ pc = "par_loop"
    /\ todo = {}
    /\ inflight = {}
    /\ pc' = "done"
    /\ UNCHANGED <<px_vars, par_vars, args, window, ffd_vars, fd_vars, roll_vars,
                   dbg_vars>>

ParInit ==
    \/ /\ InitFracDiff
       /\ d \in ParDValues
       /\ threshold \in ParThresholds
       /\ series \in ShortInputs
    \/ /\ InitEngleGranger
       /\ <<series, x>> \in ParPairInputs
       /\ window >= 2

ParNext ==
    \/ ffd_iter
    \/ ffd_exhausted
    \/ ffd_return
    \/ par_fork
    \/ \E wk \in 1..NumWorkers : par_fd_compute(wk)
    \/ \E wk \in 1..NumWorkers : par_fd_write(wk)
    \/ \E wk \in 1..NumWorkers : par_eg_compute(wk)
    \/ \E wk \in 1..NumWorkers : par_eg_write(wk)
    \/ par_join

ParSpec == ParInit /\ [][ParNext]_vars

\* the result of the sequential loop, lines 46-50, from index tv on
RECURSIVE SequentialLoop(_, _)
SequentialLoop(res, tv) ==
    IF tv < Len(series)
    THEN SequentialLoop([res EXCEPT ![tv + 1] = sum_val(weights, series, tv, window)],
                        tv + 1)
    ELSE res

\* the indices taken and not yet written
Pending == {job.idx : job \in inflight}

----------------------------------------------------------------------------
(* generate_test_data.py, main, the case linear_d05 (lines 100-101):       *)
(* frac_diff_manual on the series 1, 2, ..., 100 with d = 0.5 and          *)
(* threshold = 1e-5.  The weights are too many for exact rationals within  *)
(* the integers of the checker, so a weight is kept as its sign and two    *)
(* bounds of its magnitude in units of 1/Grid; the bounds are widened by   *)
(* one unit a step, far more than the rounding of a double.  Where the     *)
(* bounds do not decide "abs(w) < threshold", both outcomes are taken.     *)

\* line 100:  np.arange(1, 101, dtype=float) has 100 elements
LinearLen == 100

\* line 20:  max_size: int = 10000
DefaultMaxSize == 10000

\* the resolution of the bounds of a weight
Grid == 1000000000

\* line 101:  d=0.5
LinearD == Frac(1, 2)

\* line 101:  threshold=1e-5
LinearThreshold == Frac(1, 100000)

\* the threshold in units of 1/Grid
ThresholdGrid(thr) == (Grid \div thr.den) * thr.num

\* line 27:  w = -w * (d - k + 1) / k, on the bounds of |w|
grid_next(wv, dv, kv) ==
    LET factor == dv.num - (kv - 1) * dv.den
        up == wv.hi * Abs(factor)
        by == dv.den * kv
        lower == (wv.lo * Abs(factor)) \div by
    IN  [lo |-> IF lower > 0 THEN lower - 1 ELSE 0,
         hi |-> (up + by - 1) \div by + 1,
         neg |-> IF factor > 0 THEN ~wv.neg ELSE wv.neg]

\* lines 26-31, one iteration of "for k in range(1, max_size)"
grid_ffd_iter ==
    /\ pc = "grid_loop"
    /\ ffd_range(k, max_size)
    /\ LET nw == grid_next(w, d, k)
       IN  /\ w' = nw
           /\ \/ /\ nw.lo < ThresholdGrid(threshold)
                 /\ pc' = "grid_return"
                 /\ UNCHANGED <<weights, k>>
              \/ /\ nw.hi >= ThresholdGrid(threshold)
                 /\ weights' = Append(weights, nw)
                 /\ k' = k + 1
                 /\ UNCHANGED pc
    /\ UNCHANGED <<px_vars, par_vars, args, window, fd_vars, roll_vars, dbg_vars>>

\* mutant of grid_ffd_return: the filter loop is "for t in range(n)"
grid_ffd_return_from_zero ==
    /\ pc = "grid_return"
    /\ window' = Len(weights)
    /\ result' = FullNaN(Len(series))
    /\ t' = 0
    /\ pc' = "fd_loop"
    /\ UNCHANGED <<px_vars, par_vars, args, ffd_vars, roll_vars, dbg_vars>>

\* line 32 and, in frac_diff_manual, lines 40-46
grid_ffd_return ==
    /\ pc = "grid_return"
    /\ window' = Len(weights)
    /\ result' = FullNaN(Len(series))
    /\ t' = Len(weights) - 1
    /\ pc' = "fd_loop"
    /\ UNCHANGED <<px_vars, par_vars, args, ffd_vars, roll_vars, dbg_vars>>

\* generate_test_case('linear_d05', linear, d=0.5, threshold=1e-5, ...):
\* line 69 calls frac_diff_manual(series, d, threshold)
InitLinear ==
    /\ fn = "generate_test_case"
    /\ d = LinearD
    /\ threshold = LinearThreshold
    /\ max_size = DefaultMaxSize
    /\ series = [j \in 1..LinearLen |-> Flt(j)]
    /\ pc = "grid_loop"
    /\ weights = <<[lo |-> Grid, hi |-> Grid, neg |-> FALSE]>>
    /\ w = [lo |-> Grid, hi |-> Grid, neg |-> FALSE]
    /\ k = 1
    /\ window = 0
    /\ result = << >>
    /\ t = 0
    /\ NoRolling
    /\ NoDebug
    /\ NoExplorer
    /\ NoWorkers

\* the loop of lines 46-50 is left at once (fd_return): C26_AllWarmUp states
\* that its guard never holds
LinearNext ==
    \/ grid_ffd_iter
    \/ grid_ffd_return
    \/ fd_return

LinearSpec == InitLinear /\ [][LinearNext]_vars

\* the indices beyond the warm-up: those of range(window - 1, n)
BeyondWarmUp == {j \in 0..(Len(series) - 1) : j >= window - 1}

====
